---- MODULE Spec2Model ----
(***************************************************************************)
(* Model of the Code attribute codec of coffer (terryc/coffer/bytecode):   *)
(* Code::write_to (the multi-pass assembler) and Code::read_from (the      *)
(* disassembler), src/terryc/coffer/bytecode/src/code.rs.                  *)
(*                                                                         *)
(* Byte strings that only matter by their length (the segments of plain    *)
(* instructions between two jumps) are kept as lengths; an instruction     *)
(* Nops(n) stands for a run of n one-byte nop instructions.                *)
(***************************************************************************)
EXTENDS Integers, Sequences, FiniteSets, TLC

VARIABLES
    self,             \* write_to: the Code value being written
    checked,          \* build flavour: TRUE = overflow checks on (debug), FALSE = wrapping (release)
    pc,               \* position inside write_to / read_from
    buf,              \* write_to: Vec<Vec<u8>>, one length per segment
    jumps,            \* write_to: the deferred jump instructions
    labels,           \* write_to: Label -> (buf index, offset inside the segment)
    line_numbers,     \* write_to: position -> line
    index_hints,      \* write_to: upper bounds of the segment starts
    actual_indices,   \* write_to: where the elements of buf end up
    actual_sizes,     \* write_to: the size chosen for each jump
    writer,           \* write_to: the fields written so far, in order
    cp,               \* write_to: the VecCp constant pool being filled
    result,           \* "none" while running, then "Ok", "Err" or "Panic"
    input,            \* read_from: the class-file Code attribute being read
    instructions,     \* read_from: the decoded instructions
    pos2idx,          \* read_from: opcode position -> index into instructions
    rlabels,          \* read_from: Labeler.labels, byte offset -> Label
    catches,          \* read_from: the decoded exception table
    attrs,            \* read_from: the high-level attributes kept
    to_insert,        \* read_from: instruction index -> pseudo-instructions
    local_vars,       \* read_from: LocalVarKey -> LocalVar
    out,              \* read_from: the Code value returned
    issued,           \* the calls made on the VecCp and the index each returned
    mcp,              \* the MapCp reader pool: entries and refs
    holders           \* the LazyBsm cells: holder -> None or Some(bootstrap method)

wvars == <<self, checked, buf, jumps, labels, line_numbers, index_hints,
           actual_indices, actual_sizes, writer, cp>>
rvars == <<input, instructions, pos2idx, rlabels, catches, attrs, to_insert,
           local_vars, out>>
pvars == <<issued, mcp, holders>>
vars == <<pc, result, wvars, rvars, pvars>>

(***************************************************************************)
(* Bounds of the explored inputs.                                          *)
(***************************************************************************)
MaxJumps == 2       \* jumps per code sequence (SpecWrite)
MaxTable == 3       \* entries of a switch table (SpecSwitch)
MaxVars == 2        \* LocalVars per LocalVariables attribute (SpecAttrs)

(***************************************************************************)
(* Opcodes (crate::constants::insn).                                       *)
(***************************************************************************)
NOP == 0
ACONST_NULL == 1
DCONST_1 == 15
IFEQ == 153
IFNE == 154
GOTO == 167
JSR == 168
TABLESWITCH == 170
LOOKUPSWITCH == 171
RETURN == 177
IFNULL == 198
IFNONNULL == 199
GOTO_W == 200
JSR_W == 201

(***************************************************************************)
(* Generic helpers.                                                        *)
(***************************************************************************)
None == [none |-> TRUE]
Some(x) == [some |-> x]
IsSome(o) == o # None

Min(a, b) == IF a < b THEN a ELSE b

RECURSIVE SumSeq(_)
SumSeq(s) == IF s = <<>> THEN 0 ELSE Head(s) + SumSeq(Tail(s))

\* i32 addition: whether a + b leaves the i32 range, and the wrapped sum
\* (written so that no intermediate value leaves the 32-bit range)
OverflowsI32(a, b) ==
    \/ b > 0 /\ a > 2147483647 - b
    \/ b < 0 /\ a < (-2147483647 - 1) - b
WrappingAdd(a, b) ==
    IF b > 0 /\ a > 2147483647 - b
    THEN (a - 2147483647 - 1) + (b - 2147483647 - 1)
    ELSE IF b < 0 /\ a < (-2147483647 - 1) - b
         THEN (a + 2147483647 + 1) + (b + 2147483647 + 1)
         ELSE a + b

\* `x as u16`
AsU16(x) == x % 65536

\* `x as i16` of a u16
AsI16(x) == IF x % 65536 >= 32768 THEN (x % 65536) - 65536 ELSE x % 65536

(***************************************************************************)
(* Instructions (enum Instruction).  Only the variants the codec treats    *)
(* specially, plus one-byte plain instructions.                            *)
(***************************************************************************)
Nops(n) == [op |-> "Nops", n |-> n]
Return == [op |-> "Return"]
\* a one-byte instruction without operands, by its opcode
Plain(opcode) == [op |-> "Plain", opcode |-> opcode]
Label(id) == [op |-> "Label", id |-> id]
LineNumber(n) == [op |-> "LineNumber", line |-> n]
Jump(cond, target) == [op |-> "Jump", cond |-> cond, target |-> target]
Jsr(target) == [op |-> "Jsr", target |-> target]
TableSwitch(default, low, offsets) ==
    [op |-> "TableSwitch", default |-> default, low |-> low, offsets |-> offsets]
\* table: the IndexMap<i32, Label> as the sequence of its (key, label) entries
LookupSwitch(default, table) ==
    [op |-> "LookupSwitch", default |-> default, table |-> table]

IsJump(insn) == insn.op \in {"Jump", "Jsr", "TableSwitch", "LookupSwitch"}

\* JumpCondition -> opcode (impl From<JumpCondition> for u8)
CondOpcode(cond) ==
    CASE cond = "Always" -> GOTO
      [] cond = "Eq" -> IFEQ
      [] cond = "Ne" -> IFNE
      [] cond = "Null" -> IFNULL
      [] cond = "NonNull" -> IFNONNULL

\* impl Neg for JumpCondition: the inverted condition, None for Always
NegCond(cond) ==
    CASE cond = "Always" -> None
      [] cond = "Eq" -> Some("Ne")
      [] cond = "Ne" -> Some("Eq")
      [] cond = "Null" -> Some("NonNull")
      [] cond = "NonNull" -> Some("Null")

(***************************************************************************)
(* Pass A: Conv::write_insn over self.code.                                *)
(* st = [buf, jumps, cursor, labels, line_numbers]                         *)
(***************************************************************************)
WriteInsn(st, insn) ==
    CASE insn.op = "Nops" -> [st EXCEPT !.cursor = @ + insn.n]
      [] insn.op = "Return" -> [st EXCEPT !.cursor = @ + 1]
      [] insn.op = "Plain" -> [st EXCEPT !.cursor = @ + 1]
      [] insn.op = "Label" ->
            [st EXCEPT !.labels =
                (insn.id :> <<Len(st.buf), st.cursor>>) @@ st.labels]
      [] insn.op = "LineNumber" ->
            [st EXCEPT !.line_numbers =
                (<<Len(st.buf), st.cursor>> :> insn.line) @@ st.line_numbers]
      [] OTHER ->
            [st EXCEPT !.buf = Append(@, st.cursor),
                       !.jumps = Append(@, insn),
                       !.cursor = 0]

RECURSIVE WriteInsns(_, _)
WriteInsns(st, code) ==
    IF code = <<>> THEN st
    ELSE WriteInsns(WriteInsn(st, Head(code)), Tail(code))

EmptyMap == [x \in {} |-> 0]

PassAState(code) ==
    WriteInsns([buf |-> <<>>, jumps |-> <<>>, cursor |-> 0,
                labels |-> EmptyMap, line_numbers |-> EmptyMap], code)

(***************************************************************************)
(* Pass B: index_hints.                                                    *)
(***************************************************************************)
ThisSizeMax(j) ==
    1 + CASE j.op = "LookupSwitch" -> 11 + Len(j.table) * 8
          [] j.op = "TableSwitch" -> 15 + Len(j.offsets) * 4
          [] j.op = "Jsr" -> 4
          [] j.op = "Jump" /\ j.cond = "Always" -> 4
          [] OTHER -> 7

RECURSIVE IndexHints(_, _, _, _)
IndexHints(js, bs, k, last_max_index) ==
    IF k > Len(js) THEN <<>>
    ELSE LET nxt == last_max_index + ThisSizeMax(js[k]) + bs[k]
         IN  <<nxt>> \o IndexHints(js, bs, k + 1, nxt)

(***************************************************************************)
(* Pass C: actual_sizes / actual_indices.                                  *)
(***************************************************************************)
\* get_label!: the (buf index, offset) of a label, None when it was never defined
GetLabel(lbls, l) == IF l \in DOMAIN lbls THEN Some(lbls[l]) ELSE None

\* the padding of a switch whose opcode is at position index
SwitchPad(index) == 3 - ((index + 1) % 4)

\* the target's projected position through index_hints
TargetOff(hints, loc) == (IF loc[1] # 0 THEN hints[loc[1]] ELSE 0) + loc[2]

\* 1 + match *j { ... }: Some(size), or None when get_label! fails
ActualSize(j, last_idx, lbls, hints) ==
    CASE j.op = "LookupSwitch" ->
            Some(1 + SwitchPad(last_idx) + 8 + Len(j.table) * 8)
      [] j.op = "TableSwitch" ->
            Some(1 + SwitchPad(last_idx) + 12 + Len(j.offsets) * 4)
      [] j.op = "Jsr" \/ (j.op = "Jump" /\ j.cond = "Always") ->
            IF GetLabel(lbls, j.target) = None THEN None
            ELSE IF TargetOff(hints, lbls[j.target]) <= 65535
                 THEN Some(1 + 2) ELSE Some(1 + 4)
      [] OTHER ->
            IF GetLabel(lbls, j.target) = None THEN None
            ELSE IF TargetOff(hints, lbls[j.target]) <= 65535
                 THEN Some(1 + 2) ELSE Some(1 + 7)

\* acc = [sizes, indices, last_idx, err]
RECURSIVE PassCLoop(_, _, _, _, _, _)
PassCLoop(js, bs, lbls, hints, k, acc) ==
    IF k > Len(js) \/ acc.err THEN acc
    ELSE LET at == acc.last_idx + bs[k]
             sz == ActualSize(js[k], at, lbls, hints)
         IN  IF sz = None THEN [acc EXCEPT !.err = TRUE]
             ELSE PassCLoop(js, bs, lbls, hints, k + 1,
                    [sizes |-> Append(acc.sizes, sz.some),
                     indices |-> Append(acc.indices, at + sz.some),
                     last_idx |-> at + sz.some,
                     err |-> FALSE])

PassCResult(js, bs, lbls, hints) ==
    PassCLoop(js, bs, lbls, hints, 1,
              [sizes |-> <<>>, indices |-> <<>>, last_idx |-> 0, err |-> FALSE])

(***************************************************************************)
(* Pass D: emission.  The writer is modelled as the sequence of fields     *)
(* written: each has a type t (which fixes its width), a value v, the part *)
(* of the attribute it belongs to (sec), the jump or segment it belongs to *)
(* (k) and its role.                                                       *)
(***************************************************************************)
\* ref is the label an offset was resolved from (-1 for the other fields)
FieldOf(sec, k, role, t, v, ref) ==
    [sec |-> sec, k |-> k, role |-> role, t |-> t, v |-> v, ref |-> ref]
Field(sec, k, role, t, v) == FieldOf(sec, k, role, t, v, -1)

\* the number of bytes a field occupies
FieldSize(f) ==
    CASE f.t = "u8" -> 1
      [] f.t = "u16" -> 2
      [] f.t \in {"u32", "i32"} -> 4
      [] f.t = "bytes" -> f.v
      [] OTHER -> 0

RECURSIVE FieldsSize(_)
FieldsSize(fs) == IF fs = <<>> THEN 0 ELSE FieldSize(Head(fs)) + FieldsSize(Tail(fs))

\* resolve_label!: the offset written for a label by jump i (1-based), None if undefined
ResolveLabel(lbls, indices, sizes, i, l) ==
    IF GetLabel(lbls, l) = None THEN None
    ELSE LET loc == lbls[l]
             that_off == (IF loc[1] = 0 THEN 0 ELSE indices[loc[1]]) + loc[2]
         IN  Some(WrappingAdd(WrappingAdd(that_off, 0 - indices[i]), sizes[i]))

\* u16::try_from(off).is_ok()
FitsU16(off) == off >= 0 /\ off <= 65535

\* tbl.sort_keys(): the entries in ascending key order (insertion sort)
RECURSIVE InsertByKey(_, _)
InsertByKey(e, s) ==
    IF s = <<>> THEN <<e>>
    ELSE IF e[1] <= Head(s)[1] THEN <<e>> \o s
         ELSE <<Head(s)>> \o InsertByKey(e, Tail(s))

RECURSIVE SortKeys(_)
SortKeys(tbl) == IF tbl = <<>> THEN <<>> ELSE InsertByKey(Head(tbl), SortKeys(Tail(tbl)))

\* the (key, label) entries of a lookupswitch in the order they are written
LookupOrderUnsorted(tbl) == tbl
LookupOrder(tbl) == SortKeys(tbl)

\* res = [fields, status]: the fields written so far and "Ok", "Err" or "Panic"
Emitted(fs) == [fields |-> fs, status |-> "Ok"]
Then(res, more) ==
    IF res.status # "Ok" THEN res
    ELSE [fields |-> res.fields \o more.fields, status |-> more.status]

\* write_to!(&resolve_label!(l), writer)
EmitOffset(lbls, indices, sizes, i, role, l) ==
    LET off == ResolveLabel(lbls, indices, sizes, i, l)
    IN  IF off = None THEN [fields |-> <<>>, status |-> "Err"]
        ELSE Emitted(<<FieldOf("code", i, role, "i32", off.some, l)>>)

RECURSIVE EmitOffsets(_, _, _, _, _)
EmitOffsets(lbls, indices, sizes, i, ls) ==
    IF ls = <<>> THEN Emitted(<<>>)
    ELSE Then(EmitOffset(lbls, indices, sizes, i, "offset", Head(ls)),
              EmitOffsets(lbls, indices, sizes, i, Tail(ls)))

RECURSIVE EmitPairs(_, _, _, _, _)
EmitPairs(lbls, indices, sizes, i, tbl) ==
    IF tbl = <<>> THEN Emitted(<<>>)
    ELSE Then(Then(Emitted(<<Field("code", i, "key", "i32", Head(tbl)[1])>>),
                   EmitOffset(lbls, indices, sizes, i, "offset", Head(tbl)[2])),
              EmitPairs(lbls, indices, sizes, i, Tail(tbl)))

\* the alignment bytes written after a switch opcode
EmitPad(indices, sizes, i) == 3 - ((indices[i] - sizes[i] + 1) % 4)

\* low + (offsets.len() - 1) as i32: Some(high), None when the build panics
TableHigh(low, n, chk) ==
    IF n = 0 /\ chk THEN None
    ELSE LET d == IF n = 0 THEN -1 ELSE n - 1
         IN  IF OverflowsI32(low, d) /\ chk THEN None
             ELSE Some(WrappingAdd(low, d))

EmitLookupSwitch(j, lbls, indices, sizes, i) ==
    Then(Emitted(<<Field("code", i, "opcode", "u8", LOOKUPSWITCH),
                   Field("code", i, "pad", "bytes", EmitPad(indices, sizes, i))>>),
    Then(EmitOffset(lbls, indices, sizes, i, "default", j.default),
    Then(Emitted(<<Field("code", i, "count", "u32", Len(j.table))>>),
         EmitPairs(lbls, indices, sizes, i, LookupOrder(j.table)))))

EmitTableSwitch(j, lbls, indices, sizes, i, chk) ==
    Then(Emitted(<<Field("code", i, "opcode", "u8", TABLESWITCH),
                   Field("code", i, "pad", "bytes", EmitPad(indices, sizes, i))>>),
    Then(EmitOffset(lbls, indices, sizes, i, "default", j.default),
    Then(Emitted(<<Field("code", i, "low", "i32", j.low)>>),
         LET high == TableHigh(j.low, Len(j.offsets), chk)
         IN  IF high = None THEN [fields |-> <<>>, status |-> "Panic"]
             ELSE Then(Emitted(<<Field("code", i, "high", "i32", high.some)>>),
                       EmitOffsets(lbls, indices, sizes, i, j.offsets)))))

\* wide!(target, off => narrow, wide) for Jsr and Jump(Always, _)
EmitGoto(j, lbls, indices, sizes, i, narrow, wide) ==
    LET off == ResolveLabel(lbls, indices, sizes, i, j.target)
    IN  IF off = None THEN [fields |-> <<>>, status |-> "Err"]
        ELSE IF FitsU16(off.some)
             THEN Emitted(<<Field("code", i, "opcode", "u8", narrow),
                            FieldOf("code", i, "offset", "u16", off.some, j.target)>>)
             ELSE Emitted(<<Field("code", i, "opcode", "u8", wide),
                            FieldOf("code", i, "offset", "i32", off.some, j.target)>>)

\* wide!(target, off => narrow, wide) for a conditional Jump
EmitCondJump(j, lbls, indices, sizes, i) ==
    LET off == ResolveLabel(lbls, indices, sizes, i, j.target)
    IN  IF off = None THEN [fields |-> <<>>, status |-> "Err"]
        ELSE IF FitsU16(off.some)
             THEN Emitted(<<Field("code", i, "opcode", "u8", CondOpcode(j.cond)),
                            FieldOf("code", i, "offset", "u16", off.some, j.target)>>)
             ELSE Emitted(<<Field("code", i, "opcode", "u8",
                                  CondOpcode(NegCond(j.cond).some)),
                            Field("code", i, "skip", "i32", 5),
                            Field("code", i, "wopcode", "u8", GOTO_W),
                            FieldOf("code", i, "offset", "i32", off.some, j.target)>>)

\* match jump { ... } of the emission loop
EmitJump(j, lbls, indices, sizes, i, chk) ==
    CASE j.op = "LookupSwitch" -> EmitLookupSwitch(j, lbls, indices, sizes, i)
      [] j.op = "TableSwitch" -> EmitTableSwitch(j, lbls, indices, sizes, i, chk)
      [] j.op = "Jsr" -> EmitGoto(j, lbls, indices, sizes, i, JSR, JSR_W)
      [] j.op = "Jump" /\ j.cond = "Always" ->
            EmitGoto(j, lbls, indices, sizes, i, GOTO, GOTO_W)
      [] OTHER -> EmitCondJump(j, lbls, indices, sizes, i)

\* the emission loop: jump i, then segment buf[i] (0-based), for every jump
RECURSIVE EmitLoop(_, _, _, _, _, _, _)
EmitLoop(js, bs, lbls, indices, sizes, i, chk) ==
    IF i > Len(js) THEN Emitted(<<>>)
    ELSE Then(Then(EmitJump(js[i], lbls, indices, sizes, i, chk),
                   Emitted(<<Field("code", i, "seg", "bytes", bs[i + 1])>>)),
              EmitLoop(js, bs, lbls, indices, sizes, i + 1, chk))

\* code_len: the last element of buf plus last_idx
CodeLen(bs, indices) ==
    bs[Len(bs)] + (IF indices = <<>> THEN 0 ELSE indices[Len(indices)])

\* code_length, buf[0], then the loop
EmitCode(js, bs, lbls, indices, sizes, chk) ==
    Then(Emitted(<<Field("len", 0, "code_length", "u32", CodeLen(bs, indices)),
                   Field("code", 0, "seg", "bytes", bs[1])>>),
         EmitLoop(js, bs, lbls, indices, sizes, 1, chk))

(***************************************************************************)
(* The writer pool VecCp (cp.rs).                                          *)
(***************************************************************************)
\* the entries used here
Utf8Entry(str) == [tag |-> "UTF8", str |-> str]
ClassEntry(name_idx) == [tag |-> "Class", name |-> name_idx]

\* VecCp::new(); prev_entries, the HashMap<RawConstantEntry, u16>, is kept as the
\* sequence of its (entry, index) pairs
NewVecCp == [entries |-> <<>>, prev_entries |-> <<>>, len |-> 1, bsm |-> <<>>]

\* RawConstantEntry::size
EntrySize(e) == IF e.tag \in {"Long", "Double"} THEN 2 ELSE 1

\* the other entries used here; an f32 or f64 is named by its decimal form
IntEntry(v) == [tag |-> "Int", int |-> v]
LongEntry(v) == [tag |-> "Long", long |-> v]
FloatEntry(x) == [tag |-> "Float", f32 |-> x]
DoubleEntry(x) == [tag |-> "Double", f64 |-> x]

\* f32::to_bits and f64::to_bits, as 16-bit words from the high one down
ToBits32(x) ==
    CASE x = "0.0" -> <<0, 0>>
      [] x = "-0.0" -> <<32768, 0>>
      [] x = "1.5" -> <<16320, 0>>
      [] x = "NaN" -> <<32704, 0>>
      [] x = "NaN1" -> <<32704, 1>>
ToBits64(x) ==
    CASE x = "0.0" -> <<0, 0, 0, 0>>
      [] x = "-0.0" -> <<32768, 0, 0, 0>>
      [] x = "1.5" -> <<16376, 0, 0, 0>>
      [] x = "NaN" -> <<32760, 0, 0, 0>>
      [] x = "NaN1" -> <<32760, 0, 0, 1>>

\* the == of f32 and f64
IeeeEq(x, y) ==
    /\ x \notin {"NaN", "NaN1"}
    /\ y \notin {"NaN", "NaN1"}
    /\ (x = y \/ {x, y} = {"0.0", "-0.0"})

\* equality of entries with the floats compared as numbers
EntryEqIeee(a, b) ==
    /\ a.tag = b.tag
    /\ CASE a.tag = "Float" -> IeeeEq(a.f32, b.f32)
         [] a.tag = "Double" -> IeeeEq(a.f64, b.f64)
         [] OTHER -> a = b

\* #[derive(PartialEq, Eq, Hash)] on RawConstantEntry with TotalF32 and TotalF64
EntryEq(a, b) ==
    /\ a.tag = b.tag
    /\ CASE a.tag = "Float" -> ToBits32(a.f32) = ToBits32(b.f32)
         [] a.tag = "Double" -> ToBits64(a.f64) = ToBits64(b.f64)
         [] OTHER -> a = b

\* self.prev_entries.get(&value)
PrevEntry(pool, value) ==
    LET hits == {n \in 1..Len(pool.prev_entries) :
                    EntryEq(pool.prev_entries[n].entry, value)}
    IN  IF hits = {} THEN None
        ELSE Some(pool.prev_entries[CHOOSE n \in hits : TRUE].idx)

\* VecCp::insert_raw: [cp, idx]
InsertRaw(pool, value) ==
    IF PrevEntry(pool, value) # None
    THEN [cp |-> pool, idx |-> PrevEntry(pool, value).some]
    ELSE [cp |-> [pool EXCEPT !.len = AsU16(pool.len + EntrySize(value)),
                              !.entries = Append(@, value),
                              !.prev_entries =
                                  Append(@, [entry |-> value, idx |-> pool.len])],
          idx |-> pool.len]

\* ConstantPoolWriter::insert_class: the UTF8 name, then the Class entry
InsertClass(pool, name) ==
    LET u == InsertRaw(pool, Utf8Entry(name))
    IN  InsertRaw(u.cp, ClassEntry(u.idx))

(***************************************************************************)
(* The exception table and the attributes.                                 *)
(***************************************************************************)
\* Labeler::label (write): Some(u16), None when it panics
LabelerLabel(lbls, indices, chk, l) ==
    IF l \notin DOMAIN lbls THEN None
    ELSE LET loc == lbls[l]
             sum == (IF loc[1] = 0 THEN 0 ELSE AsU16(indices[loc[1]])) + AsU16(loc[2])
         IN  IF sum <= 65535 THEN Some(sum)
             ELSE IF chk THEN None ELSE Some(AsU16(sum))

\* acc = [fields, cp, status]
RECURSIVE EmitCatches(_, _, _, _, _, _)
EmitCatches(cs, k, lbls, indices, chk, acc) ==
    IF k > Len(cs) \/ acc.status # "Ok" THEN acc
    ELSE LET c == cs[k]
             s == LabelerLabel(lbls, indices, chk, c.start)
             e == LabelerLabel(lbls, indices, chk, c.end)
             h == LabelerLabel(lbls, indices, chk, c.handler)
             ty == IF c.catch = None THEN [cp |-> acc.cp, idx |-> 0]
                   ELSE InsertClass(acc.cp, c.catch.some)
         IN  IF s = None THEN [acc EXCEPT !.status = "Panic"]
             ELSE IF e = None
                  THEN [acc EXCEPT !.status = "Panic",
                            !.fields = @ \o <<FieldOf("exc", k, "start", "u16", s.some, c.start)>>]
             ELSE IF h = None
                  THEN [acc EXCEPT !.status = "Panic",
                            !.fields = @ \o <<FieldOf("exc", k, "start", "u16", s.some, c.start),
                                              FieldOf("exc", k, "end", "u16", e.some, c.end)>>]
             ELSE EmitCatches(cs, k + 1, lbls, indices, chk,
                    [fields |-> acc.fields \o
                        <<FieldOf("exc", k, "start", "u16", s.some, c.start),
                          FieldOf("exc", k, "end", "u16", e.some, c.end),
                          FieldOf("exc", k, "handler", "u16", h.some, c.handler),
                          Field("exc", k, "catch", "u16", ty.idx)>>,
                     cp |-> ty.cp,
                     status |-> "Ok"])

\* the high-level LocalVariable and attributes (code::LocalVariable, CodeAttribute)
LocalVariable(start, end, name, descriptor, signature, index) ==
    [start |-> start, end |-> end, name |-> name, descriptor |-> descriptor,
     signature |-> signature, index |-> index]
LocalVariables(l) == [kind |-> "LocalVariables", vars |-> l]
Raw(r) == [kind |-> "Raw", raw |-> r]
VisibleTypeAnnotations(a) == [kind |-> "VisibleTypeAnnotations", an |-> a]
InvisibleTypeAnnotations(a) == [kind |-> "InvisibleTypeAnnotations", an |-> a]

\* the low-level table entries (LocalVar, LocalVarType)
LocalVar(start, len, name, descriptor, index) ==
    [start |-> start, len |-> len, name |-> name, descriptor |-> descriptor,
     index |-> index]
LocalVarType(start, len, name, signature, index) ==
    [start |-> start, len |-> len, name |-> name, signature |-> signature,
     index |-> index]

\* start and len of a local variable range: Some(<<start, len>>), None on a panic
VarRange(lbls, indices, chk, lc) ==
    LET s == LabelerLabel(lbls, indices, chk, lc.start)
        e == LabelerLabel(lbls, indices, chk, lc.end)
    IN  IF s = None \/ e = None THEN None
        ELSE IF e.some >= s.some THEN Some(<<s.some, e.some - s.some>>)
             ELSE IF chk THEN None ELSE Some(<<s.some, AsU16(e.some - s.some)>>)

VarEntriesUnlessSignature(lc, range) ==
    IF lc.descriptor # None /\ lc.signature = None
    THEN <<LocalVar(range[1], range[2], lc.name, lc.descriptor.some, lc.index)>>
    ELSE <<>>

\* the descriptor half of one LocalVariable: the entries pushed to `var`
VarEntries(lc, range) ==
    IF lc.descriptor # None
    THEN <<LocalVar(range[1], range[2], lc.name, lc.descriptor.some, lc.index)>>
    ELSE <<>>

\* the signature half of one LocalVariable: the entries pushed to `ty`
TyEntries(lc, range) ==
    IF lc.signature # None
    THEN <<LocalVarType(range[1], range[2], lc.name, lc.signature.some, lc.index)>>
    ELSE <<>>

\* for lc in l { ... }: acc = [var, ty, panic]
RECURSIVE SplitLocalVars(_, _, _, _, _)
SplitLocalVars(l, lbls, indices, chk, acc) ==
    IF l = <<>> \/ acc.panic THEN acc
    ELSE LET lc == Head(l)
             range == VarRange(lbls, indices, chk, lc)
         IN  IF lc.descriptor = None /\ lc.signature = None
             THEN SplitLocalVars(Tail(l), lbls, indices, chk, acc)
             ELSE IF range = None THEN [acc EXCEPT !.panic = TRUE]
             ELSE SplitLocalVars(Tail(l), lbls, indices, chk,
                    [var |-> acc.var \o VarEntries(lc, range.some),
                     ty |-> acc.ty \o TyEntries(lc, range.some),
                     panic |-> FALSE])

LocalVariableTable(var) == [name |-> "LocalVariableTable", entries |-> var]
LocalVariableTypeTable(ty) == [name |-> "LocalVariableTypeTable", entries |-> ty]

\* one iteration of `for a in &self.attrs`: [written, extra, status]
WriteAttr(a, lbls, indices, chk) ==
    CASE a.kind = "VisibleTypeAnnotations" ->
            [written |-> <<[name |-> "RuntimeVisibleTypeAnnotations", an |-> a.an]>>,
             extra |-> 0, status |-> "Ok"]
      [] a.kind = "InvisibleTypeAnnotations" ->
            [written |-> <<[name |-> "RuntimeInvisibleTypeAnnotations", an |-> a.an]>>,
             extra |-> 0, status |-> "Ok"]
      [] a.kind = "Raw" ->
            [written |-> <<[name |-> "Raw", raw |-> a.raw]>>,
             extra |-> 0, status |-> "Ok"]
      [] OTHER ->
            LET sp == SplitLocalVars(a.vars, lbls, indices, chk,
                                     [var |-> <<>>, ty |-> <<>>, panic |-> FALSE])
            IN  IF sp.panic THEN [written |-> <<>>, extra |-> 0, status |-> "Panic"]
                ELSE IF sp.ty = <<>> /\ sp.var = <<>>
                     THEN [written |-> <<>>, extra |-> 0, status |-> "Err"]
                ELSE IF sp.var = <<>>
                     THEN [written |-> <<LocalVariableTypeTable(sp.ty)>>,
                           extra |-> 0, status |-> "Ok"]
                ELSE IF sp.ty = <<>>
                     THEN [written |-> <<LocalVariableTable(sp.var)>>,
                           extra |-> 0, status |-> "Ok"]
                ELSE [written |-> <<LocalVariableTable(sp.var),
                                    LocalVariableTypeTable(sp.ty)>>,
                      extra |-> 1, status |-> "Ok"]

\* acc = [written, from, extra, status]; from[n] is the index in self.attrs of
\* the attribute the n-th written one comes from
RECURSIVE WriteAttrs(_, _, _, _, _, _)
WriteAttrs(as, i, lbls, indices, chk, acc) ==
    IF i > Len(as) \/ acc.status # "Ok" THEN acc
    ELSE LET w == WriteAttr(as[i], lbls, indices, chk)
         IN  WriteAttrs(as, i + 1, lbls, indices, chk,
                [written |-> acc.written \o w.written,
                 from |-> acc.from \o [n \in 1..Len(w.written) |-> i],
                 extra |-> acc.extra + w.extra,
                 status |-> w.status])

(***************************************************************************)
(* Code::write_to as a sequence of steps, one per pass.                    *)
(***************************************************************************)
Code(max_stack, max_locals, code, cs, as) ==
    [max_stack |-> max_stack, max_locals |-> max_locals, code |-> code,
     catches |-> cs, attrs |-> as]

Catch(start, end, handler, catch) ==
    [start |-> start, end |-> end, handler |-> handler, catch |-> catch]

\* MapCp::new()
NewMapCp == [entries |-> <<>>, refs |-> EmptyMap]

\* no call has been made on a pool
PoolIdle ==
    /\ issued = <<>>
    /\ mcp = NewMapCp
    /\ holders = EmptyMap

\* the reader is not running
ReaderIdle ==
    /\ input = <<>>
    /\ instructions = <<>>
    /\ pos2idx = EmptyMap
    /\ rlabels = EmptyMap
    /\ catches = <<>>
    /\ attrs = <<>>
    /\ to_insert = EmptyMap
    /\ local_vars = EmptyMap
    /\ out = None

\* the state on entry to write_to(c) with an empty pool
WriteStart(c) ==
    /\ self = c
    /\ pc = "PassA"
    /\ buf = <<>>
    /\ jumps = <<>>
    /\ labels = EmptyMap
    /\ line_numbers = EmptyMap
    /\ index_hints = <<>>
    /\ actual_indices = <<>>
    /\ actual_sizes = <<>>
    /\ writer = <<>>
    /\ cp = NewVecCp
    /\ result = "none"

\* max_stack, max_locals, then the loop over self.code and the last segment
PassA ==
    /\ pc = "PassA"
    /\ LET st == PassAState(self.code)
       IN  /\ buf' = Append(st.buf, st.cursor)
           /\ jumps' = st.jumps
           /\ labels' = st.labels
           /\ line_numbers' = st.line_numbers
    /\ writer' = <<Field("hdr", 0, "max_stack", "u16", self.max_stack),
                   Field("hdr", 0, "max_locals", "u16", self.max_locals)>>
    /\ pc' = "PassB"
    /\ UNCHANGED <<pvars, self, checked, index_hints, actual_indices, actual_sizes, cp,
                   result, rvars>>

PassB ==
    /\ pc = "PassB"
    /\ index_hints' = IndexHints(jumps, buf, 1, 0)
    /\ pc' = "PassC"
    /\ UNCHANGED <<pvars, self, checked, buf, jumps, labels, line_numbers, actual_indices,
                   actual_sizes, writer, cp, result, rvars>>

PassC ==
    /\ pc = "PassC"
    /\ LET r == PassCResult(jumps, buf, labels, index_hints)
       IN  /\ actual_sizes' = r.sizes
           /\ actual_indices' = r.indices
           /\ pc' = IF r.err THEN "Done" ELSE "PassD"
           /\ result' = IF r.err THEN "Err" ELSE result
    /\ UNCHANGED <<pvars, self, checked, buf, jumps, labels, line_numbers, index_hints,
                   writer, cp, rvars>>

PassD ==
    /\ pc = "PassD"
    /\ LET r == EmitCode(jumps, buf, labels, actual_indices, actual_sizes, checked)
       IN  /\ writer' = writer \o r.fields
           /\ pc' = IF r.status = "Ok" THEN "Catches" ELSE "Done"
           /\ result' = IF r.status = "Ok" THEN result ELSE r.status
    /\ UNCHANGED <<pvars, self, checked, buf, jumps, labels, line_numbers, index_hints,
                   actual_indices, actual_sizes, cp, rvars>>

WriteCatches ==
    /\ pc = "Catches"
    /\ LET r == EmitCatches(self.catches, 1, labels, actual_indices, checked,
                            [fields |-> <<>>, cp |-> cp, status |-> "Ok"])
       IN  /\ writer' = writer
                 \o <<Field("exc", 0, "exception_table_length", "u16",
                            AsU16(Len(self.catches)))>>
                 \o r.fields
           /\ cp' = r.cp
           /\ pc' = IF r.status = "Ok" THEN "Attrs" ELSE "Done"
           /\ result' = IF r.status = "Ok" THEN result ELSE r.status
    /\ UNCHANGED <<pvars, self, checked, buf, jumps, labels, line_numbers, index_hints,
                   actual_indices, actual_sizes, rvars>>

\* the attributes written last first
AttrFieldReversed(written, from, k) ==
    FieldOf("attr", k, "attribute", "attr", written[Len(written) + 1 - k],
            from[Len(written) + 1 - k])

\* the attribute written as the k-th one, for self.attrs[from]
AttrField(written, from, k) ==
    FieldOf("attr", k, "attribute", "attr", written[k], from[k])

WriteAttributes ==
    /\ pc = "Attrs"
    /\ LET r == WriteAttrs(self.attrs, 1, labels, actual_indices, checked,
                           [written |-> <<>>, from |-> <<>>, extra |-> 0,
                            status |-> "Ok"])
       IN  /\ writer' =
                 IF r.status = "Ok"
                 THEN writer
                      \o <<Field("attr", 0, "attributes_count", "u16",
                                 AsU16(AsU16(Len(self.attrs)) + r.extra))>>
                      \o [k \in 1..Len(r.written) |-> AttrField(r.written, r.from, k)]
                 ELSE writer
           /\ result' = r.status
    /\ pc' = "Done"
    /\ UNCHANGED <<pvars, self, checked, buf, jumps, labels, line_numbers, index_hints,
                   actual_indices, actual_sizes, cp, rvars>>

NextWrite == PassA \/ PassB \/ PassC \/ PassD \/ WriteCatches \/ WriteAttributes

(***************************************************************************)
(* Inputs of SpecWrite: up to MaxJumps jumps, each between two segments    *)
(* of plain instructions; segment i holds Label(i).                        *)
(***************************************************************************)
\* (bytes before the label, bytes after it)
SegShapes == {<<0, 1>>, <<1, 40000>>, <<2, 70000>>}

Segment(i, shape) ==
    (IF shape[1] > 0 THEN <<Nops(shape[1])>> ELSE <<>>)
    \o <<Label(i)>>
    \o (IF shape[2] > 0 THEN <<Nops(shape[2])>> ELSE <<>>)

\* the jumps that target label l
JumpsTo(l) ==
    {Jump("Always", l), Jump("Eq", l), Jsr(l),
     TableSwitch(l, 0, <<l>>), LookupSwitch(l, <<<<1, l>>>>)}

\* segment 0, then (jump i, segment i) for i = 1..k
RECURSIVE Interleave(_, _, _)
Interleave(shapes, js, i) ==
    IF i > Len(js) THEN <<>>
    ELSE <<js[i]>> \o Segment(i, shapes[i + 1]) \o Interleave(shapes, js, i + 1)

\* the first and the last segment take every shape, those in between the first one
ShapesFor(k) ==
    {sh \in [1..(k + 1) -> SegShapes] :
        \A i \in 2..k : sh[i] = <<0, 1>>}

JumpCodes ==
    UNION {
      UNION {
        { Segment(0, shapes[1]) \o Interleave(shapes, js, 1) :
            js \in [1..k -> UNION {JumpsTo(l) : l \in {0, k}}] }
        : shapes \in ShapesFor(k) }
      : k \in 0..MaxJumps }

InitWrite ==
    /\ PoolIdle
    /\ \E code \in JumpCodes : WriteStart(Code(1, 1, code, <<>>, <<>>))
    /\ checked = TRUE
    /\ ReaderIdle

SpecWrite == InitWrite /\ [][NextWrite]_vars

(***************************************************************************)
(* What was really written, measured on the writer.                        *)
(***************************************************************************)
\* the code array has been written completely
CodeWritten == pc \in {"Catches", "Attrs"} \/ (pc = "Done" /\ result = "Ok")

IsCodeField(f) == f.sec = "code"
CodeFields == SelectSeq(writer, IsCodeField)

\* the byte offset in the code array at which the n-th code field starts
FieldStart(n) == FieldsSize(SubSeq(CodeFields, 1, n - 1))

\* the indices of the code fields of jump k with the given role
JumpFieldIdx(k, role) ==
    {n \in 1..Len(CodeFields) : CodeFields[n].k = k /\ CodeFields[n].role = role}

\* the byte offset at which the opcode of jump k really is
RealOpcodePos(k) ==
    LET Before(f) == f.k < k
    IN  FieldsSize(SelectSeq(CodeFields, Before))

\* the number of bytes really written for jump k
RealJumpSize(k) ==
    LET Mine(f) == f.k = k /\ f.role # "seg"
    IN  FieldsSize(SelectSeq(CodeFields, Mine))

\* the byte offset right after jump k, where segment buf[k] really starts
RealEnd(k) == RealOpcodePos(k) + RealJumpSize(k)

\* the byte offset at which a label really is
RealLabelPos(l) ==
    (IF labels[l][1] = 0 THEN 0 ELSE RealEnd(labels[l][1])) + labels[l][2]

\* the distance from the opcode of jump k to label l
RealDistance(k, l) == RealLabelPos(l) - RealOpcodePos(k)

InI16(d) == d >= -32768 /\ d <= 32767

\* the field of jump k with the given role (there is exactly one)
JumpField(k, role) == CodeFields[CHOOSE n \in JumpFieldIdx(k, role) : TRUE]

(***************************************************************************)
(* C2: in the emitted code array the default offset of every tableswitch   *)
(* and lookupswitch starts at a multiple of 4.                             *)
(***************************************************************************)
C2_SwitchDefaultAligned ==
    CodeWritten =>
        \A n \in 1..Len(CodeFields) :
            CodeFields[n].role = "default" => FieldStart(n) % 4 = 0

(***************************************************************************)
(* C3: actual_indices[k] is the number of code bytes really emitted up to  *)
(* and including jump k.                                                   *)
(***************************************************************************)
C3_ActualIndicesExact ==
    CodeWritten =>
        \A k \in 1..Len(jumps) : actual_indices[k] = RealEnd(k)

(***************************************************************************)
(* C4: the code_length field equals the number of bytes written for the    *)
(* code array.                                                             *)
(***************************************************************************)
C4_CodeLengthExact ==
    CodeWritten =>
        \A n \in 1..Len(writer) :
            writer[n].role = "code_length" => writer[n].v = FieldsSize(CodeFields)

(***************************************************************************)
(* C5: a conditional jump is emitted in the wide form (inverted condition  *)
(* and goto_w) exactly when the distance from its opcode to its target is  *)
(* outside the signed 16-bit range, and as the 3-byte branch otherwise.    *)
(***************************************************************************)
IsCondJump(j) == j.op = "Jump" /\ j.cond # "Always"

C5_CondWideIffOutsideI16 ==
    CodeWritten =>
        \A k \in 1..Len(jumps) :
            IsCondJump(jumps[k]) =>
                /\ (JumpFieldIdx(k, "wopcode") # {})
                       <=> ~InI16(RealDistance(k, jumps[k].target))
                /\ InI16(RealDistance(k, jumps[k].target)) => RealJumpSize(k) = 3

(***************************************************************************)
(* C6: a goto or jsr whose target is outside the signed 16-bit range is    *)
(* emitted as goto_w / jsr_w, 5 bytes, with the signed 32-bit offset; one  *)
(* whose target is inside the range is emitted in the 3-byte form whose    *)
(* 16-bit operand is the signed offset.                                    *)
(***************************************************************************)
IsGoto(j) == j.op = "Jsr" \/ (j.op = "Jump" /\ j.cond = "Always")

C6_GotoWidth ==
    CodeWritten =>
        \A k \in 1..Len(jumps) :
            IsGoto(jumps[k]) =>
                LET d == RealDistance(k, jumps[k].target)
                    opc == JumpField(k, "opcode")
                    off == JumpField(k, "offset")
                IN  IF InI16(d)
                    THEN /\ opc.v = (IF jumps[k].op = "Jsr" THEN JSR ELSE GOTO)
                         /\ RealJumpSize(k) = 3
                         /\ off.t = "u16"
                         /\ AsI16(off.v) = d
                    ELSE /\ opc.v = (IF jumps[k].op = "Jsr" THEN JSR_W ELSE GOTO_W)
                         /\ RealJumpSize(k) = 5
                         /\ off.t = "i32"
                         /\ off.v = d

(***************************************************************************)
(* Inputs of SpecSwitch: one switch at every alignment, with every table   *)
(* of up to MaxTable entries.                                              *)
(***************************************************************************)
SwitchKeys == {-1, 1, 3, 5}
SwitchLows == {0, 2147483647, -2147483647 - 1}

\* the sequences of length n without repetition over S
DistinctSeqs(S, n) ==
    {q \in [1..n -> S] : \A i, j \in 1..n : i # j => q[i] # q[j]}

\* the IndexMaps of n entries: distinct keys in any order, each mapped to a label
LookupTables(n) ==
    {[i \in 1..n |-> <<ks[i], ls[i]>>] :
        ks \in DistinctSeqs(SwitchKeys, n), ls \in [1..n -> {0, 1}]}

Switches ==
    UNION {
        {LookupSwitch(1, t) : t \in LookupTables(n)}
        \cup {TableSwitch(1, low, offs) : low \in SwitchLows, offs \in [1..n -> {0, 1}]}
      : n \in 0..MaxTable }

\* a nops and Label(0), possibly a jump, the switch, Label(1) one nop after it
SwitchCode(a, pre, sw) ==
    (IF a > 0 THEN <<Nops(a)>> ELSE <<>>)
    \o <<Label(0)>> \o pre \o <<sw, Nops(1), Label(1), Return>>

InitSwitch ==
    /\ PoolIdle
    /\ \E a \in 0..3, sw \in Switches, pre \in {<<>>, <<Jsr(0)>>} :
          /\ WriteStart(Code(1, 1, SwitchCode(a, pre, sw), <<>>, <<>>))
          /\ checked \in (IF sw.op = "TableSwitch" THEN BOOLEAN ELSE {TRUE})
    /\ ReaderIdle

SpecSwitch == InitSwitch /\ [][NextWrite]_vars

(***************************************************************************)
(* C8: whatever the order of the entries of a LookupSwitch table, the      *)
(* writer emits the entry count and then the (key, offset) pairs in        *)
(* ascending key order, each key with the offset resolved for the label    *)
(* the input table maps it to (the true distance to that label whenever    *)
(* actual_indices is exact).                                               *)
(***************************************************************************)
\* the (key, offset) pairs written for jump k, in the order written
EmittedPairs(k) ==
    LET IsKey(f) == f.k = k /\ f.role = "key"
        IsOff(f) == f.k = k /\ f.role = "offset"
        keys == SelectSeq(CodeFields, IsKey)
        offs == SelectSeq(CodeFields, IsOff)
    IN  [i \in 1..Min(Len(keys), Len(offs)) |->
            [key |-> keys[i].v, label |-> offs[i].ref, off |-> offs[i].v,
             adjacent |-> \E n \in 1..(Len(CodeFields) - 1) :
                              CodeFields[n] = keys[i] /\ CodeFields[n + 1] = offs[i]]]

C8_LookupSwitchSorted ==
    CodeWritten =>
        \A k \in 1..Len(jumps) :
            jumps[k].op = "LookupSwitch" =>
                LET tbl == jumps[k].table
                    ep == EmittedPairs(k)
                IN  /\ JumpField(k, "count").v = Len(tbl)
                    /\ Len(ep) = Len(tbl)
                    /\ \A i \in 1..Len(ep) : ep[i].adjacent
                    /\ \A i, j \in 1..Len(ep) : i < j => ep[i].key < ep[j].key
                    /\ \A i \in 1..Len(ep) :
                          \E e \in 1..Len(tbl) :
                              /\ tbl[e][1] = ep[i].key
                              /\ tbl[e][2] = ep[i].label
                              /\ ep[i].off =
                                   ResolveLabel(labels, actual_indices, actual_sizes,
                                                k, tbl[e][2]).some
                              /\ (\A m \in 1..k : actual_indices[m] = RealEnd(m))
                                     => ep[i].off = RealDistance(k, tbl[e][2])

\* a lookupswitch whose input table was not in key order has been written
C8_Witness ==
    /\ CodeWritten
    /\ \E k \in 1..Len(jumps) :
          /\ jumps[k].op = "LookupSwitch"
          /\ Len(jumps[k].table) >= 3
          /\ jumps[k].table[1][1] > jumps[k].table[2][1]
          /\ jumps[k].table[2][1] < jumps[k].table[3][1]
          /\ jumps[k].table[1][2] # jumps[k].table[2][2]

(***************************************************************************)
(* Inputs of SpecAttrs: a fixed code sequence with three labels, one       *)
(* catch, and a LocalVariables attribute of up to MaxVars LocalVariables   *)
(* between two other attributes.                                           *)
(***************************************************************************)
\* t = 2: a forward jump; t = 0: a backward one
AttrsCode(t) ==
    <<Label(0), Nops(1), Label(1), Jump("Eq", t), Nops(2), Label(2), Return>>

\* name and slot, start and end label: y ends before it starts
VarSlots == {<<"x", 1, 0, 2>>, <<"y", 2, 2, 1>>}

LocalVariableInputs ==
    {LocalVariable(sl[3], sl[4], sl[1], d, g, sl[2]) :
        sl \in VarSlots, d \in {None, Some("I")}, g \in {None, Some("TT;")}}

LocalVariableLists ==
    UNION {[1..n -> LocalVariableInputs] : n \in 0..MaxVars}

InitAttrs ==
    /\ PoolIdle
    /\ \E l \in LocalVariableLists, t \in {0, 2} :
          WriteStart(Code(1, 3, AttrsCode(t),
                          <<Catch(0, 1, 2, Some("java/lang/Exception"))>>,
                          <<Raw("Custom"), LocalVariables(l),
                            VisibleTypeAnnotations("TA")>>))
    /\ checked \in BOOLEAN
    /\ ReaderIdle

SpecAttrs == InitAttrs /\ [][NextWrite]_vars

(***************************************************************************)
(* C9: a LocalVariable with a descriptor and a signature produces exactly  *)
(* one LocalVariableTable entry and one LocalVariableTypeTable entry, both *)
(* with the same start, length, name and slot index; one with only a       *)
(* descriptor produces only a LocalVariableTable entry, one with only a    *)
(* signature only a LocalVariableTypeTable entry.                          *)
(***************************************************************************)
WriteOk == pc = "Done" /\ result = "Ok"

\* the entries of the tables called name written for self.attrs[ai]
TableEntries(ai, name) ==
    LET Mine(f) == f.role = "attribute" /\ f.ref = ai /\ f.v.name = name
        fs == SelectSeq(writer, Mine)
    IN  IF fs = <<>> THEN <<>> ELSE fs[1].v.entries

\* how many tables called name were written for self.attrs[ai]
TableCount(ai, name) ==
    Cardinality({n \in 1..Len(writer) :
        /\ writer[n].role = "attribute"
        /\ writer[n].ref = ai
        /\ writer[n].v.name = name})

\* the number of i <= n with vs[i] carrying the field (its rank among them)
RECURSIVE Rank(_, _, _)
Rank(vs, n, field) ==
    IF n = 0 THEN 0
    ELSE Rank(vs, n - 1, field) + (IF vs[n][field] # None THEN 1 ELSE 0)

C9_LocalVariablesSplit ==
    WriteOk =>
        \A ai \in 1..Len(self.attrs) :
            self.attrs[ai].kind = "LocalVariables" =>
                LET vs == self.attrs[ai].vars
                    var == TableEntries(ai, "LocalVariableTable")
                    ty == TableEntries(ai, "LocalVariableTypeTable")
                IN  /\ TableCount(ai, "LocalVariableTable") <= 1
                    /\ TableCount(ai, "LocalVariableTypeTable") <= 1
                    /\ Len(var) = Rank(vs, Len(vs), "descriptor")
                    /\ Len(ty) = Rank(vs, Len(vs), "signature")
                    /\ \A i \in 1..Len(vs) :
                          LET d == Rank(vs, i, "descriptor")
                              g == Rank(vs, i, "signature")
                              exact == \A m \in 1..Len(jumps) :
                                          actual_indices[m] = RealEnd(m)
                          IN  /\ vs[i].descriptor # None =>
                                    /\ var[d].name = vs[i].name
                                    /\ var[d].index = vs[i].index
                                    /\ var[d].descriptor = vs[i].descriptor.some
                                    /\ exact => var[d].start = RealLabelPos(vs[i].start)
                              /\ vs[i].signature # None =>
                                    /\ ty[g].name = vs[i].name
                                    /\ ty[g].index = vs[i].index
                                    /\ ty[g].signature = vs[i].signature.some
                                    /\ exact => ty[g].start = RealLabelPos(vs[i].start)
                              /\ (vs[i].descriptor # None /\ vs[i].signature # None) =>
                                    /\ var[d].start = ty[g].start
                                    /\ var[d].len = ty[g].len

\* a write that succeeded on a LocalVariable with both, after one with a
\* descriptor only
C9_Witness ==
    /\ WriteOk
    /\ \E ai \in 1..Len(self.attrs) :
          /\ self.attrs[ai].kind = "LocalVariables"
          /\ Len(self.attrs[ai].vars) >= 2
          /\ self.attrs[ai].vars[1].descriptor # None
          /\ self.attrs[ai].vars[1].signature = None
          /\ self.attrs[ai].vars[2].descriptor # None
          /\ self.attrs[ai].vars[2].signature # None
          /\ Len(TableEntries(ai, "LocalVariableTable")) = 2
          /\ Len(TableEntries(ai, "LocalVariableTypeTable")) = 1

(***************************************************************************)
(* Code::read_from.  The code array is a sequence of bytes; the exception  *)
(* table and the attributes are taken as the values their own readers      *)
(* return.  Positions are 0-based as in the source; pos2idx maps them to    *)
(* 0-based instruction indices.                                            *)
(***************************************************************************)
\* the byte at 0-based position p
ByteAt(code, p) == code[p + 1]

\* big-endian reads at position p (the caller checks the length)
ReadU16(code, p) == ByteAt(code, p) * 256 + ByteAt(code, p + 1)
ReadI16(code, p) == AsI16(ReadU16(code, p))
ReadI32(code, p) ==
    (IF ByteAt(code, p) >= 128 THEN ByteAt(code, p) - 256 ELSE ByteAt(code, p)) * 16777216
    + ByteAt(code, p + 1) * 65536 + ByteAt(code, p + 2) * 256 + ByteAt(code, p + 3)

\* get_label that takes a fresh id on every call
ReadGetLabelAlwaysMint(lbls, idx) ==
    [labels |-> (idx :> Cardinality(DOMAIN lbls)) @@ lbls,
     label |-> Cardinality(DOMAIN lbls)]

\* Labeler::get_label (read): [labels, label]
ReadGetLabel(lbls, idx) ==
    IF idx \in DOMAIN lbls THEN [labels |-> lbls, label |-> lbls[idx]]
    ELSE [labels |-> (idx :> Cardinality(DOMAIN lbls)) @@ lbls,
          label |-> Cardinality(DOMAIN lbls)]

\* get_label over a sequence of offsets, in order: [labels, out]
RECURSIVE ReadGetLabels(_, _)
ReadGetLabels(lbls, idxs) ==
    IF idxs = <<>> THEN [labels |-> lbls, out |-> <<>>]
    ELSE LET g == ReadGetLabel(lbls, Head(idxs))
             r == ReadGetLabels(g.labels, Tail(idxs))
         IN  [labels |-> r.labels, out |-> <<g.label>> \o r.out]

\* opcode -> JumpCondition for the 3-byte branches
OpcodeCond(opcode) ==
    CASE opcode = GOTO -> "Always"
      [] opcode = IFEQ -> "Eq"
      [] opcode = IFNE -> "Ne"
      [] opcode = IFNULL -> "Null"
      [] opcode = IFNONNULL -> "NonNull"

\* the position of the default offset of a switch whose opcode is at curpos
SwitchOperands(curpos) == curpos + (4 - (curpos % 4))

\* One iteration of the disassembly loop at curpos: Instruction::read_from and
\* Conv::convert_direct_instruction.  [ok, insn, next, labels]
DecodeFail(lbls) == [ok |-> FALSE, insn |-> Return, next |-> 0, labels |-> lbls]

DecodeSwitchTable(code, lbls, curpos, at) ==
    LET low == ReadI32(code, at + 4)
        high == ReadI32(code, at + 8)
        n == IF high >= low /\ ~OverflowsI32(high, 0 - low) THEN high - low + 1 ELSE -1
    IN  IF n < 0 \/ n > Len(code) \/ at + 12 + 4 * n > Len(code) THEN DecodeFail(lbls)
        ELSE LET g == ReadGetLabels(lbls,
                        <<curpos + ReadI32(code, at)>>
                        \o [i \in 1..n |-> curpos + ReadI32(code, at + 12 + 4 * (i - 1))])
             IN  [ok |-> TRUE,
                  insn |-> TableSwitch(g.out[1], low, Tail(g.out)),
                  next |-> at + 12 + 4 * n,
                  labels |-> g.labels]

DecodeSwitchLookup(code, lbls, curpos, at) ==
    LET n == ReadI32(code, at + 4)
    IN  IF n < 0 \/ n > Len(code) \/ at + 8 + 8 * n > Len(code) THEN DecodeFail(lbls)
        ELSE LET g == ReadGetLabels(lbls,
                        <<curpos + ReadI32(code, at)>>
                        \o [i \in 1..n |-> curpos + ReadI32(code, at + 12 + 8 * (i - 1))])
             IN  [ok |-> TRUE,
                  insn |-> LookupSwitch(g.out[1],
                              [i \in 1..n |->
                                  <<ReadI32(code, at + 8 + 8 * (i - 1)), g.out[i + 1]>>]),
                  next |-> at + 8 + 8 * n,
                  labels |-> g.labels]

Decode(code, lbls, curpos) ==
    LET opcode == ByteAt(code, curpos)
        len == Len(code)
    IN  CASE opcode = NOP ->
                [ok |-> TRUE, insn |-> Nops(1), next |-> curpos + 1, labels |-> lbls]
          [] opcode = RETURN ->
                [ok |-> TRUE, insn |-> Return, next |-> curpos + 1, labels |-> lbls]
          [] opcode \in ACONST_NULL..DCONST_1 ->
                [ok |-> TRUE, insn |-> Plain(opcode), next |-> curpos + 1, labels |-> lbls]
          [] opcode \in {GOTO, IFEQ, IFNE, IFNULL, IFNONNULL} ->
                IF curpos + 3 > len THEN DecodeFail(lbls)
                ELSE LET g == ReadGetLabel(lbls, curpos + ReadI16(code, curpos + 1))
                     IN  [ok |-> TRUE, insn |-> Jump(OpcodeCond(opcode), g.label),
                          next |-> curpos + 3, labels |-> g.labels]
          [] opcode = JSR ->
                IF curpos + 3 > len THEN DecodeFail(lbls)
                ELSE LET g == ReadGetLabel(lbls, curpos + ReadI16(code, curpos + 1))
                     IN  [ok |-> TRUE, insn |-> Jsr(g.label),
                          next |-> curpos + 3, labels |-> g.labels]
          [] opcode \in {GOTO_W, JSR_W} ->
                IF curpos + 5 > len THEN DecodeFail(lbls)
                ELSE LET g == ReadGetLabel(lbls, curpos + ReadI32(code, curpos + 1))
                     IN  [ok |-> TRUE,
                          insn |-> IF opcode = JSR_W THEN Jsr(g.label)
                                   ELSE Jump("Always", g.label),
                          next |-> curpos + 5, labels |-> g.labels]
          [] opcode = TABLESWITCH ->
                IF SwitchOperands(curpos) + 12 > len THEN DecodeFail(lbls)
                ELSE DecodeSwitchTable(code, lbls, curpos, SwitchOperands(curpos))
          [] opcode = LOOKUPSWITCH ->
                IF SwitchOperands(curpos) + 8 > len THEN DecodeFail(lbls)
                ELSE DecodeSwitchLookup(code, lbls, curpos, SwitchOperands(curpos))
          [] opcode > JSR_W -> DecodeFail(lbls)

\* while code_reader.position() < len: acc = [ok, instructions, pos2idx, labels]
RECURSIVE Disassemble(_, _, _)
Disassemble(code, curpos, acc) ==
    IF curpos >= Len(code)
    THEN [acc EXCEPT !.pos2idx = (Len(code) :> Len(acc.instructions)) @@ @]
    ELSE LET d == Decode(code, acc.labels, curpos)
         IN  IF ~d.ok THEN [acc EXCEPT !.ok = FALSE]
             ELSE Disassemble(code, d.next,
                    [ok |-> TRUE,
                     instructions |-> Append(acc.instructions, d.insn),
                     pos2idx |-> (curpos :> Len(acc.instructions)) @@ acc.pos2idx,
                     labels |-> d.labels])

\* try_cp_read_idx!(labeler, idx, read_class): Some(name), None on an invalid index
ReadClass(pool, idx) ==
    IF idx \notin DOMAIN pool THEN None
    ELSE IF pool[idx].tag # "Class" THEN None
    ELSE IF pool[idx].name \notin DOMAIN pool THEN None
    ELSE IF pool[pool[idx].name].tag # "UTF8" THEN None
    ELSE Some(pool[pool[idx].name].str)

\* for _ in 0..exceptions: acc = [ok, catches, labels]
RECURSIVE ReadCatches(_, _, _, _)
ReadCatches(pool, es, k, acc) ==
    IF k > Len(es) \/ ~acc.ok THEN acc
    ELSE LET g == ReadGetLabels(acc.labels,
                     <<es[k].start_pc, es[k].end_pc, es[k].handler_pc>>)
             ty == IF es[k].catch_type = 0 THEN Some(None)
                   ELSE IF ReadClass(pool, es[k].catch_type) = None THEN None
                   ELSE Some(ReadClass(pool, es[k].catch_type))
         IN  IF ty = None THEN [acc EXCEPT !.ok = FALSE, !.labels = g.labels]
             ELSE ReadCatches(pool, es, k + 1,
                    [ok |-> TRUE,
                     catches |-> Append(acc.catches,
                                   Catch(g.out[1], g.out[2], g.out[3], ty.some)),
                     labels |-> g.labels])

\* the low-level attributes (enum CodeAttr) as CodeAttr::read_from returns them
LineNumberTable(ln) == [name |-> "LineNumberTable", entries |-> ln]
StackMapTable(frames) == [name |-> "StackMapTable", frames |-> frames]
RuntimeVisibleTypeAnnotations(a) == [name |-> "RuntimeVisibleTypeAnnotations", an |-> a]
RuntimeInvisibleTypeAnnotations(a) == [name |-> "RuntimeInvisibleTypeAnnotations", an |-> a]
RawAttr(r) == [name |-> "Raw", raw |-> r]

\* st = [status, labels, to_insert, local_vars, attrs]
\* the LineNumberTable arm
RECURSIVE ReadLineNumbers(_, _, _)
ReadLineNumbers(ln, p2i, st) ==
    IF ln = <<>> \/ st.status # "Ok" THEN st
    ELSE IF Head(ln)[1] \notin DOMAIN p2i THEN [st EXCEPT !.status = "Panic"]
    ELSE ReadLineNumbers(Tail(ln), p2i,
            [st EXCEPT !.to_insert =
                [x \in DOMAIN @ \cup {p2i[Head(ln)[1]]} |->
                    IF x = p2i[Head(ln)[1]] THEN <<LineNumber(Head(ln)[2])>>
                    ELSE @[x]]])

\* LocalVarKey(start, end, index, name)
LocalVarKey(start, end, index, name) == <<start, end, index, name>>

\* the descriptor of an entry of a LocalVariableTable goes into the LocalVariable
\* under its key
MergeDescriptor(lvs, key, l) ==
    IF key \in DOMAIN lvs
    THEN [lvs EXCEPT ![key].descriptor = Some(l.descriptor)]
    ELSE (key :> LocalVariable(key[1], key[2], l.name, Some(l.descriptor), None,
                               l.index)) @@ lvs

\* the entry of a LocalVariableTypeTable replaces what is under its key
MergeSignatureReplace(lvs, key, l) ==
    (key :> LocalVariable(key[1], key[2], l.name, None, Some(l.signature),
                          l.index)) @@ lvs

\* the signature of an entry of a LocalVariableTypeTable goes into the LocalVariable
\* under its key
MergeSignature(lvs, key, l) ==
    IF key \in DOMAIN lvs
    THEN [lvs EXCEPT ![key].signature = Some(l.signature)]
    ELSE (key :> LocalVariable(key[1], key[2], l.name, None, Some(l.signature),
                               l.index)) @@ lvs

\* the LocalVariableTable and LocalVariableTypeTable arms: for l in localvar
RECURSIVE ReadLocalVars(_, _, _, _)
ReadLocalVars(es, typed, chk, st) ==
    IF es = <<>> \/ st.status # "Ok" THEN st
    ELSE LET l == Head(es)
             sum == l.start + l.len
         IN  IF sum > 65535 /\ chk THEN [st EXCEPT !.status = "Panic"]
             ELSE LET g == ReadGetLabels(st.labels, <<l.start, AsU16(sum)>>)
                      key == LocalVarKey(g.out[1], g.out[2], l.index, l.name)
                  IN  ReadLocalVars(Tail(es), typed, chk,
                        [st EXCEPT !.labels = g.labels,
                                   !.local_vars =
                                       IF typed THEN MergeSignature(@, key, l)
                                       ELSE MergeDescriptor(@, key, l)])

\* match CodeAttr::read_from(..)? { ... }
ReadAttr(a, p2i, chk, st) ==
    CASE a.name = "LineNumberTable" -> ReadLineNumbers(a.entries, p2i, st)
      [] a.name = "LocalVariableTable" -> ReadLocalVars(a.entries, FALSE, chk, st)
      [] a.name = "LocalVariableTypeTable" -> ReadLocalVars(a.entries, TRUE, chk, st)
      [] a.name = "StackMapTable" -> st
      [] a.name = "RuntimeInvisibleTypeAnnotations" ->
            [st EXCEPT !.attrs = Append(@, InvisibleTypeAnnotations(a.an))]
      [] a.name = "RuntimeVisibleTypeAnnotations" ->
            [st EXCEPT !.attrs = Append(@, VisibleTypeAnnotations(a.an))]
      [] OTHER -> [st EXCEPT !.attrs = Append(@, Raw(a.raw))]

RECURSIVE ReadAttrs(_, _, _, _)
ReadAttrs(as, p2i, chk, st) ==
    IF as = <<>> \/ st.status # "Ok" THEN st
    ELSE ReadAttrs(Tail(as), p2i, chk, ReadAttr(Head(as), p2i, chk, st))

\* for (k, v) in labeler.labels { to_insert.entry(pos2idx[&k]).or_default().push(Label(v)) }
\* in the iteration order `order` (a sequence of the offsets); None on a panic
RECURSIVE PushLabels(_, _, _, _)
PushLabels(order, lbls, p2i, ti) ==
    IF order = <<>> THEN Some(ti)
    ELSE IF Head(order) \notin DOMAIN p2i THEN None
    ELSE LET at == p2i[Head(order)]
             lab == Label(lbls[Head(order)])
         IN  PushLabels(Tail(order), lbls, p2i,
                [x \in DOMAIN ti \cup {at} |->
                    IF x = at
                    THEN (IF at \in DOMAIN ti THEN ti[at] ELSE <<>>) \o <<lab>>
                    ELSE ti[x]])

\* instructions.insert(k, i) with a 0-based k
InsertAt(insns, k, i) ==
    SubSeq(insns, 1, k) \o <<i>> \o SubSeq(insns, k + 1, Len(insns))

\* for i in v { instructions.insert(k, i) }
RECURSIVE InsertAll(_, _, _)
InsertAll(insns, k, v) ==
    IF v = <<>> THEN insns ELSE InsertAll(InsertAt(insns, k, Head(v)), k, Tail(v))

Max(S) == CHOOSE x \in S : \A y \in S : y <= x

\* the insertion in ascending order of the keys
RECURSIVE InsertPseudoAscending(_, _, _)
InsertPseudoAscending(insns, ti, keys) ==
    IF keys = {} THEN insns
    ELSE LET k == CHOOSE x \in keys : \A y \in keys : x <= y
         IN  InsertPseudoAscending(InsertAll(insns, k, ti[k]), ti, keys \ {k})

\* for (k, v) in to_insert.into_iter().rev()
RECURSIVE InsertPseudo(_, _, _)
InsertPseudo(insns, ti, keys) ==
    IF keys = {} THEN insns
    ELSE InsertPseudo(InsertAll(insns, Max(keys), ti[Max(keys)]), ti,
                      keys \ {Max(keys)})

\* the sequences that enumerate the finite set S once each
Orders(S) == {q \in [1..Cardinality(S) -> S] : \A x \in S : \E i \in DOMAIN q : q[i] = x}

(***************************************************************************)
(* Code::read_from as a sequence of steps.                                 *)
(***************************************************************************)
\* the class-file form of a Code attribute, as read_from consumes it; cp is the
\* reader pool (index -> entry)
ClassCode(max_stack, max_locals, code, exceptions, attributes, pool) ==
    [max_stack |-> max_stack, max_locals |-> max_locals, code |-> code,
     exceptions |-> exceptions, attributes |-> attributes, cp |-> pool]

ExceptionEntry(start_pc, end_pc, handler_pc, catch_type) ==
    [start_pc |-> start_pc, end_pc |-> end_pc, handler_pc |-> handler_pc,
     catch_type |-> catch_type]

\* the writer is not running
WriterIdle ==
    /\ self = Code(0, 0, <<>>, <<>>, <<>>)
    /\ buf = <<>>
    /\ jumps = <<>>
    /\ labels = EmptyMap
    /\ line_numbers = EmptyMap
    /\ index_hints = <<>>
    /\ actual_indices = <<>>
    /\ actual_sizes = <<>>
    /\ writer = <<>>
    /\ cp = NewVecCp

\* the state on entry to read_from
ReadStart(c) ==
    /\ input = c
    /\ pc = "RCode"
    /\ instructions = <<>>
    /\ pos2idx = EmptyMap
    /\ rlabels = EmptyMap
    /\ catches = <<>>
    /\ attrs = <<>>
    /\ to_insert = EmptyMap
    /\ local_vars = EmptyMap
    /\ out = None
    /\ result = "none"

\* max_stack, max_locals, the code buffer and the disassembly loop
ReadCode ==
    /\ pc = "RCode"
    /\ LET d == Disassemble(input.code, 0,
                   [ok |-> TRUE, instructions |-> <<>>, pos2idx |-> EmptyMap,
                    labels |-> EmptyMap])
       IN  /\ instructions' = d.instructions
           /\ pos2idx' = d.pos2idx
           /\ rlabels' = d.labels
           /\ pc' = IF d.ok THEN "RCatches" ELSE "RDone"
           /\ result' = IF d.ok THEN result ELSE "Err"
    /\ UNCHANGED <<pvars, wvars, input, catches, attrs, to_insert, local_vars, out>>

\* the try-catch blocks
ReadExceptions ==
    /\ pc = "RCatches"
    /\ LET r == ReadCatches(input.cp, input.exceptions, 1,
                            [ok |-> TRUE, catches |-> <<>>, labels |-> rlabels])
       IN  /\ catches' = r.catches
           /\ rlabels' = r.labels
           /\ pc' = IF r.ok THEN "RAttrs" ELSE "RDone"
           /\ result' = IF r.ok THEN result ELSE "Err"
    /\ UNCHANGED <<pvars, wvars, input, instructions, pos2idx, attrs, to_insert,
                   local_vars, out>>

\* the attributes
ReadAttributes ==
    /\ pc = "RAttrs"
    /\ LET st == ReadAttrs(input.attributes, pos2idx, checked,
                           [status |-> "Ok", labels |-> rlabels,
                            to_insert |-> EmptyMap, local_vars |-> EmptyMap,
                            attrs |-> <<>>])
       IN  /\ rlabels' = st.labels
           /\ to_insert' = st.to_insert
           /\ local_vars' = st.local_vars
           /\ attrs' = st.attrs
           /\ pc' = IF st.status = "Ok" THEN "RFinish" ELSE "RDone"
           /\ result' = IF st.status = "Ok" THEN result ELSE st.status
    /\ UNCHANGED <<pvars, wvars, input, instructions, pos2idx, catches, out>>

\* the offsets of rlabels in ascending order
RECURSIVE Ascending(_)
Ascending(S) ==
    IF S = {} THEN <<>> ELSE Ascending(S \ {Max(S)}) \o <<Max(S)>>

\* The LocalVariables attribute, the Label pseudo-instructions and the insertion.
\* The Vec of LocalVariables comes out of a HashMap in any order.  The labels come
\* out of a HashMap too, but distinct offsets have distinct instruction indices,
\* so every order of them gives the same to_insert.
ReadFinish ==
    /\ pc = "RFinish"
    /\ \E vorder \in Orders(DOMAIN local_vars) :
          LET all == attrs \o (IF DOMAIN local_vars # {}
                               THEN <<LocalVariables(
                                        [i \in DOMAIN vorder |-> local_vars[vorder[i]]])>>
                               ELSE <<>>)
              ti == PushLabels(Ascending(DOMAIN rlabels), rlabels, pos2idx, to_insert)
          IN  /\ attrs' = all
              /\ IF ti = None
                 THEN /\ result' = "Panic"
                      /\ UNCHANGED <<to_insert, instructions, out>>
                 ELSE /\ to_insert' = ti.some
                      /\ instructions' =
                            InsertPseudo(instructions, ti.some, DOMAIN ti.some)
                      /\ out' = Some(Code(input.max_stack, input.max_locals,
                                          instructions', catches, all))
                      /\ result' = "Ok"
    /\ pc' = "RDone"
    /\ UNCHANGED <<pvars, wvars, input, pos2idx, rlabels, catches, local_vars>>

NextRead == ReadCode \/ ReadExceptions \/ ReadAttributes \/ ReadFinish

(***************************************************************************)
(* Class-file inputs of read_from.                                         *)
(***************************************************************************)
\* big-endian encodings (two's complement)
U16Bytes(v) == <<(v \div 256) % 256, v % 256>>
I32Bytes(v) ==
    <<(v \div 16777216) % 256, (v \div 65536) % 256, (v \div 256) % 256, v % 256>>

\* nop; ifeq +4; nop; goto -5; return
BranchProgram ==
    <<NOP, IFEQ>> \o U16Bytes(4) \o <<NOP, GOTO>> \o U16Bytes(-5) \o <<RETURN>>
\* tableswitch (default +24, low 7, high 8: +25, +0); nop; return
TableProgram ==
    <<TABLESWITCH, 0, 0, 0>> \o I32Bytes(24) \o I32Bytes(7) \o I32Bytes(8)
    \o I32Bytes(25) \o I32Bytes(0) \o <<NOP, RETURN>>
\* nop; lookupswitch (default +19, -3: -1); goto_w -20; return
LookupProgram ==
    <<NOP, LOOKUPSWITCH, 0, 0>> \o I32Bytes(19) \o I32Bytes(1) \o I32Bytes(-3)
    \o I32Bytes(-1) \o <<GOTO_W>> \o I32Bytes(-20) \o <<RETURN>>
\* goto +1 (into the middle of itself); return
MisalignedProgram == <<GOTO>> \o U16Bytes(1) \o <<RETURN>>
\* nop; a goto cut short
TruncatedProgram == <<NOP, GOTO, 0>>

\* a program and the position of an opcode inside it
ReadPrograms ==
    {[code |-> BranchProgram, mid |-> 4], [code |-> TableProgram, mid |-> 24],
     [code |-> LookupProgram, mid |-> 20], [code |-> MisalignedProgram, mid |-> 3],
     [code |-> TruncatedProgram, mid |-> 0]}

ReadPool == (1 :> Utf8Entry("java/lang/Exception")) @@ (2 :> ClassEntry(1))

\* <<start, len, name, index>> of the table entries: they differ from the first
\* in the name, in the slot, in the end and in the start
VarKeys(len, mid) ==
    <<<<0, len, "x", 1>>, <<0, len, "y", 1>>, <<0, len, "x", 2>>,
      <<0, mid, "x", 1>>, <<mid, len - mid, "x", 1>>>>

\* the entries of VarKeys picked by the index set S, in ascending order
VarTable(keys, S, typed) ==
    [i \in 1..Cardinality(S) |->
        LET k == keys[Ascending(S)[i]]
        IN  IF typed THEN LocalVarType(k[1], k[2], k[3], "TT;", k[4])
            ELSE LocalVar(k[1], k[2], k[3], "I", k[4])]

VarTableChoices == {S \in SUBSET (1..5) : Cardinality(S) <= MaxVars}

\* the attributes of the Code attribute: the two tables in either order, among
\* attributes of every other kind
ReadAttributesOf(p, S, T, typed_first) ==
    LET keys == VarKeys(Len(p.code), p.mid)
        lvt == LocalVariableTable(VarTable(keys, S, FALSE))
        lvtt == LocalVariableTypeTable(VarTable(keys, T, TRUE))
    IN  <<RawAttr("Custom"),
          IF typed_first THEN lvtt ELSE lvt,
          StackMapTable("Frames"),
          IF typed_first THEN lvt ELSE lvtt,
          LineNumberTable(<<<<0, 10>>, <<p.mid, 11>>>>),
          RuntimeVisibleTypeAnnotations("TA")>>

ReadExceptionsOf(p) ==
    {<<>>, <<ExceptionEntry(0, p.mid, Len(p.code), 2)>>}

InitRead ==
    /\ PoolIdle
    /\ WriterIdle
    /\ checked = TRUE
    /\ \E p \in ReadPrograms : \E es \in ReadExceptionsOf(p) :
       \E S \in VarTableChoices : \E T \in VarTableChoices :
       \E typed_first \in BOOLEAN :
          /\ (p.code # BranchProgram => S = {1} /\ T = {1} /\ ~typed_first)
          /\ ReadStart(ClassCode(2, 3, p.code, es,
                                 ReadAttributesOf(p, S, T, typed_first), ReadPool))

SpecRead == InitRead /\ [][NextRead]_vars

(***************************************************************************)
(* Properties of the reader.                                               *)
(***************************************************************************)
ReadOk == pc = "RDone" /\ result = "Ok"

\* the labels an instruction refers to
Targets(insn) ==
    CASE insn.op \in {"Jump", "Jsr"} -> {insn.target}
      [] insn.op = "TableSwitch" ->
            {insn.default} \cup {insn.offsets[i] : i \in DOMAIN insn.offsets}
      [] insn.op = "LookupSwitch" ->
            {insn.default} \cup {insn.table[i][2] : i \in DOMAIN insn.table}
      [] OTHER -> {}

\* the label ids the labeler handed out
MintedLabels == {rlabels[o] : o \in DOMAIN rlabels}

\* the positions of Label(id) in a list of instructions
LabelPositions(code, id) == {i \in DOMAIN code : code[i] = Label(id)}

\* the real instructions in code[1..i-1]
RealBefore(code, i) ==
    Cardinality({j \in 1..(i - 1) : code[j].op \notin {"Label", "LineNumber"}})

\* C7: after a successful read every label id minted for a byte offset has
\* exactly one Label(id) pseudo-instruction in the instruction list, placed before
\* the instruction decoded at that offset; no other Label is there, distinct
\* offsets have distinct ids, and every label a jump, switch or catch refers to
\* is one of them.
C7_OneLabelPerMintedId ==
    ReadOk =>
        LET code == out.some.code
        IN  /\ \A o \in DOMAIN rlabels :
                  /\ Cardinality(LabelPositions(code, rlabels[o])) = 1
                  /\ \A i \in LabelPositions(code, rlabels[o]) :
                        RealBefore(code, i) = pos2idx[o]
            /\ \A o1, o2 \in DOMAIN rlabels : rlabels[o1] = rlabels[o2] => o1 = o2
            /\ \A i \in DOMAIN code :
                  /\ code[i].op = "Label" => code[i].id \in MintedLabels
                  /\ Targets(code[i]) \subseteq MintedLabels
            /\ \A i \in DOMAIN out.some.catches :
                  {out.some.catches[i].start, out.some.catches[i].end,
                   out.some.catches[i].handler} \subseteq MintedLabels
            /\ \A i \in DOMAIN out.some.attrs :
                  out.some.attrs[i].kind = "LocalVariables" =>
                     \A j \in DOMAIN out.some.attrs[i].vars :
                        {out.some.attrs[i].vars[j].start,
                         out.some.attrs[i].vars[j].end} \subseteq MintedLabels

\* a read that minted labels for a branch, an exception range and a variable
\* range, one offset being asked for more than once
C7_Witness ==
    /\ ReadOk
    /\ Cardinality(DOMAIN rlabels) >= 4
    /\ input.exceptions # <<>>
    /\ DOMAIN local_vars # {}
    /\ \E i \in DOMAIN out.some.code : out.some.code[i].op = "Jump"
    /\ \E i \in DOMAIN out.some.code :
          /\ out.some.code[i].op = "Jump"
          /\ out.some.code[i].target = out.some.catches[1].start

\* the entries of the attributes called name in the input
InputEntries(name) ==
    UNION {{input.attributes[i].entries[j] : j \in DOMAIN input.attributes[i].entries} :
              i \in {i \in DOMAIN input.attributes : input.attributes[i].name = name}}

\* the key of a table entry and of a LocalVariable, in byte offsets
EntryKey(e) == <<e.start, e.start + e.len, e.index, e.name>>
LabelOffset(id) == CHOOSE o \in DOMAIN rlabels : rlabels[o] = id
VariableKey(v) == <<LabelOffset(v.start), LabelOffset(v.end), v.index, v.name>>

\* C10: after a successful read, the entries of the LocalVariableTable and of the
\* LocalVariableTypeTable with the same (start, end, slot, name) are one
\* LocalVariable holding the descriptor and the signature, whichever table came
\* first; entries whose keys differ are separate LocalVariables; all of them are
\* in one LocalVariables attribute.
C10_LocalVariablesMerged ==
    ReadOk =>
        LET as == out.some.attrs
            D == InputEntries("LocalVariableTable")
            T == InputEntries("LocalVariableTypeTable")
            keys == {EntryKey(e) : e \in D \cup T}
            lv == {i \in DOMAIN as : as[i].kind = "LocalVariables"}
        IN  /\ Cardinality(lv) = IF keys = {} THEN 0 ELSE 1
            /\ \A i \in lv :
                  /\ Len(as[i].vars) = Cardinality(keys)
                  /\ \A k \in keys : \E j \in DOMAIN as[i].vars :
                        LET v == as[i].vars[j]
                        IN  /\ VariableKey(v) = k
                            /\ v.descriptor =
                                 IF \E e \in D : EntryKey(e) = k
                                 THEN Some((CHOOSE e \in D : EntryKey(e) = k).descriptor)
                                 ELSE None
                            /\ v.signature =
                                 IF \E e \in T : EntryKey(e) = k
                                 THEN Some((CHOOSE e \in T : EntryKey(e) = k).signature)
                                 ELSE None

\* the type table read first: one variable in both tables, one in each alone
C10_Witness ==
    /\ ReadOk
    /\ input.attributes[2].name = "LocalVariableTypeTable"
    /\ \E i \in DOMAIN out.some.attrs :
          /\ out.some.attrs[i].kind = "LocalVariables"
          /\ LET vs == out.some.attrs[i].vars
             IN  /\ \E j \in DOMAIN vs : IsSome(vs[j].descriptor) /\ IsSome(vs[j].signature)
                 /\ \E j \in DOMAIN vs : IsSome(vs[j].descriptor) /\ vs[j].signature = None
                 /\ \E j \in DOMAIN vs : vs[j].descriptor = None /\ IsSome(vs[j].signature)

(***************************************************************************)
(* The round trip: the bytes write_to produced are handed to read_from.    *)
(***************************************************************************)
\* the bytes of a field of the writer; a segment of n bytes is n nops and the
\* padding of a switch is zeros
FieldBytes(f) ==
    CASE f.t = "u8" -> <<f.v>>
      [] f.t = "u16" -> U16Bytes(f.v)
      [] f.t \in {"u32", "i32"} -> I32Bytes(f.v)
      [] f.t = "bytes" -> [i \in 1..f.v |-> NOP]

RECURSIVE FieldsBytes(_)
FieldsBytes(fs) ==
    IF fs = <<>> THEN <<>> ELSE FieldBytes(Head(fs)) \o FieldsBytes(Tail(fs))

IsByteField(f) == f.t # "attr"
IsAttrField(f) == f.t = "attr"

\* everything written up to attributes_count, as bytes
StreamBytes(w) == FieldsBytes(SelectSeq(w, IsByteField))
\* the attributes written after it
StreamAttrs(w) ==
    [i \in 1..Len(SelectSeq(w, IsAttrField)) |-> SelectSeq(w, IsAttrField)[i].v]

\* the constant pool of the class file as the reader sees it: index -> entry
ReaderPool(pool) ==
    [i \in {pool.prev_entries[n].idx : n \in DOMAIN pool.prev_entries} |->
        pool.prev_entries[CHOOSE n \in DOMAIN pool.prev_entries :
                             pool.prev_entries[n].idx = i].entry]

\* for _ in 0..exceptions, on the bytes at p: [ok, entries, next]
RECURSIVE FrameExceptions(_, _, _, _)
FrameExceptions(bytes, p, n, acc) ==
    IF n = 0 THEN [ok |-> TRUE, entries |-> acc, next |-> p]
    ELSE IF p + 8 > Len(bytes) THEN [ok |-> FALSE, entries |-> acc, next |-> p]
    ELSE FrameExceptions(bytes, p + 8, n - 1,
            Append(acc, ExceptionEntry(ReadU16(bytes, p), ReadU16(bytes, p + 2),
                                       ReadU16(bytes, p + 4), ReadU16(bytes, p + 6))))

\* attributes read from bytes that are not attributes: a name looked up in the
\* pool, a u32 length and that many bytes.  [ok, attributes]
RECURSIVE FrameRawAttrs(_, _, _, _, _)
FrameRawAttrs(bytes, p, n, pool, acc) ==
    IF n = 0 THEN [ok |-> TRUE, attributes |-> acc]
    ELSE IF p + 6 > Len(bytes) THEN [ok |-> FALSE, attributes |-> acc]
    ELSE LET name_idx == ReadU16(bytes, p)
             length == ReadI32(bytes, p + 2)
         IN  IF name_idx \notin DOMAIN pool THEN [ok |-> FALSE, attributes |-> acc]
             ELSE IF pool[name_idx].tag # "UTF8" THEN [ok |-> FALSE, attributes |-> acc]
             ELSE IF length < 0 \/ p + 6 + length > Len(bytes)
                  THEN [ok |-> FALSE, attributes |-> acc]
             ELSE FrameRawAttrs(bytes, p + 6 + length, n - 1, pool,
                     Append(acc, RawAttr(<<pool[name_idx].str,
                                           SubSeq(bytes, p + 7, p + 6 + length)>>)))

FrameFail == [ok |-> FALSE, code |-> ClassCode(0, 0, <<>>, <<>>, <<>>, EmptyMap)]

\* The fields of a Code attribute as read_from takes them from the stream `bytes`
\* followed by the attributes `typed`: code_length bytes of code, the exception
\* table from the byte after them, attributes_count from the byte after that.
\* When code_length is not the length of the code that was written, the
\* exception table and the attributes are read from where they are not.
\* [ok, code]; ok is FALSE when the stream ends early or a name is not in the pool.
Frame(bytes, typed, pool) ==
    LET n == ReadI32(bytes, 4)
        q == 8 + n
    IN  IF q + 2 > Len(bytes)
        THEN CASE typed = <<>> -> FrameFail
        ELSE LET es == FrameExceptions(bytes, q + 2, ReadU16(bytes, q), <<>>)
             IN  IF ~es.ok \/ es.next + 2 > Len(bytes)
                 THEN CASE typed = <<>> -> FrameFail
                 ELSE LET count == ReadU16(bytes, es.next)
                          as == IF es.next + 2 = Len(bytes)
                                THEN [ok |-> count <= Len(typed),
                                      attributes |-> SubSeq(typed, 1, count)]
                                ELSE CASE typed = <<>> ->
                                        FrameRawAttrs(bytes, es.next + 2, count, pool, <<>>)
                      IN  IF ~as.ok THEN FrameFail
                          ELSE [ok |-> TRUE,
                                code |-> ClassCode(ReadU16(bytes, 0), ReadU16(bytes, 2),
                                                   SubSeq(bytes, 9, q), es.entries,
                                                   as.attributes, pool)]

\* read_from starts on what write_to wrote
Feed ==
    /\ pc = "Done"
    /\ result = "Ok"
    /\ LET fr == Frame(StreamBytes(writer), StreamAttrs(writer), ReaderPool(cp))
       IN  /\ input' = fr.code
           /\ pc' = IF fr.ok THEN "RCode" ELSE "RDone"
           /\ result' = IF fr.ok THEN "none" ELSE "Err"
    /\ UNCHANGED <<pvars, wvars, instructions, pos2idx, rlabels, catches, attrs, to_insert,
                   local_vars, out>>

NextRoundTrip == NextWrite \/ Feed \/ NextRead

(***************************************************************************)
(* Inputs of the round trip: up to MaxJumps jumps among one-byte           *)
(* instructions, every label defined once, with or without an exception    *)
(* handler and a local variable.                                           *)
(***************************************************************************)
\* no goto, jsr or conditional jump goes backwards (jump i stands before Label(i))
AllForward(js) ==
    \A i \in DOMAIN js : js[i].op \in {"Jump", "Jsr"} => js[i].target >= i

RoundTripShapes(k) ==
    {sh \in [1..(k + 1) -> {<<0, 1>>, <<1, 1>>}] : \A i \in 2..(k + 1) : sh[i] = <<0, 1>>}

\* The attributes follow the code in the stream as whole attributes; they are
\* given only to the inputs whose code_length is the length of the code written.
InitRoundTrip ==
    /\ PoolIdle
    /\ checked = TRUE
    /\ ReaderIdle
    /\ \E k \in 0..MaxJumps :
       \E js \in [1..k -> UNION {JumpsTo(l) : l \in {0, k}}] :
       \E sh \in RoundTripShapes(k) :
       \E cs \in {<<>>, <<Catch(0, k, k, Some("java/lang/Exception"))>>} :
       \E as \in {<<>>,
                  <<LocalVariables(
                      <<LocalVariable(0, k, "x", Some("I"), Some("TT;"), 1)>>)>>} :
          /\ as # <<>> => AllForward(js)
          /\ WriteStart(Code(2, 3, Segment(0, sh[1]) \o Interleave(sh, js, 1), cs, as))

SpecRoundTrip == InitRoundTrip /\ [][NextRoundTrip]_vars

\* the labels a Code refers to
Referenced(c) ==
    UNION {Targets(c.code[i]) : i \in DOMAIN c.code}
    \cup UNION {{c.catches[i].start, c.catches[i].end, c.catches[i].handler} :
                   i \in DOMAIN c.catches}
    \cup UNION {IF c.attrs[i].kind = "LocalVariables"
                THEN UNION {{c.attrs[i].vars[j].start, c.attrs[i].vars[j].end} :
                               j \in DOMAIN c.attrs[i].vars}
                ELSE {} : i \in DOMAIN c.attrs}

\* the instructions without the Label pseudo-instructions nothing refers to
RECURSIVE Strip(_, _)
Strip(code, R) ==
    IF code = <<>> THEN <<>>
    ELSE IF Head(code).op = "Label" /\ Head(code).id \notin R THEN Strip(Tail(code), R)
    ELSE <<Head(code)>> \o Strip(Tail(code), R)

\* an instruction with its labels renamed by f
RenameInsn(insn, f) ==
    CASE insn.op = "Label" -> Label(f[insn.id])
      [] insn.op = "Jump" -> Jump(insn.cond, f[insn.target])
      [] insn.op = "Jsr" -> Jsr(f[insn.target])
      [] insn.op = "TableSwitch" ->
            TableSwitch(f[insn.default], insn.low,
                        [i \in DOMAIN insn.offsets |-> f[insn.offsets[i]]])
      [] insn.op = "LookupSwitch" ->
            LookupSwitch(f[insn.default],
                         [i \in DOMAIN insn.table |->
                             <<SortKeys(insn.table)[i][1], f[SortKeys(insn.table)[i][2]]>>])
      [] OTHER -> insn

RenameCatch(c, f) == Catch(f[c.start], f[c.end], f[c.handler], c.catch)

RenameAttr(a, f) ==
    IF a.kind = "LocalVariables"
    THEN [kind |-> "LocalVariables",
          vars |-> {[a.vars[j] EXCEPT !.start = f[@], !.end = f[@]] : j \in DOMAIN a.vars}]
    ELSE a

\* b is a with its labels renamed one to one (the lookup tables compared by
\* key, the local variables as a set)
CodeEquiv(a, b) ==
    /\ a.max_stack = b.max_stack
    /\ a.max_locals = b.max_locals
    /\ Len(Strip(a.code, Referenced(a))) = Len(Strip(b.code, Referenced(b)))
    /\ Len(a.catches) = Len(b.catches)
    /\ Len(a.attrs) = Len(b.attrs)
    /\ \E f \in [Referenced(a) -> Referenced(b)] :
          /\ \A x, y \in Referenced(a) : f[x] = f[y] => x = y
          /\ \A i \in DOMAIN Strip(a.code, Referenced(a)) :
                RenameInsn(Strip(a.code, Referenced(a))[i], f)
                   = RenameInsn(Strip(b.code, Referenced(b))[i],
                                [l \in Referenced(b) |-> l])
          /\ \A i \in DOMAIN a.catches : RenameCatch(a.catches[i], f) = b.catches[i]
          /\ \A i \in DOMAIN a.attrs :
                RenameAttr(a.attrs[i], f)
                   = RenameAttr(b.attrs[i], [l \in Referenced(b) |-> l])

\* C1: when read_from has worked on the bytes that write_to produced for a
\* well-formed Code, it has returned a Code equal to the one written up to the
\* renaming of its labels.
C1_RoundTrip ==
    pc = "RDone" => result = "Ok" /\ CodeEquiv(self, out.some)

(***************************************************************************)
(* The writer on a LocalVariable without descriptor and signature.         *)
(***************************************************************************)
\* some LocalVariables attribute of self holds a LocalVariable with neither
HasBareLocalVariable ==
    \E ai \in DOMAIN self.attrs :
        /\ self.attrs[ai].kind = "LocalVariables"
        /\ \E i \in DOMAIN self.attrs[ai].vars :
              /\ self.attrs[ai].vars[i].descriptor = None
              /\ self.attrs[ai].vars[i].signature = None

\* C11: write_to ends with an error whenever a LocalVariables attribute holds
\* a LocalVariable that has neither a descriptor nor a signature, alone or
\* beside others that have one.
C11_BareLocalVariableFails ==
    (pc = "Done" /\ HasBareLocalVariable) => result = "Err"

(***************************************************************************)
(* VecCp under a sequence of insert_raw and insert_bsm calls.              *)
(***************************************************************************)
\* the calls made in one run, and those made on the pool that is nearly full
MaxInserts == 4
MaxFullInserts == 2

\* idx + value.size() overflows u16: the checked build panics
InsertRawPanics(pool, value, chk) ==
    /\ chk
    /\ PrevEntry(pool, value) = None
    /\ pool.len + EntrySize(value) > 65535

\* VecCp::insert_bsm: [cp, idx]
InsertBsm(pool, bsm) ==
    [cp |-> [pool EXCEPT !.bsm = Append(@, bsm)], idx |-> AsU16(Len(pool.bsm))]

\* the pool after insert_raw(Long(1)), ..., insert_raw(Long(32767)): len = 65535
NearlyFullVecCp ==
    [entries |-> [i \in 1..32767 |-> LongEntry(i)],
     prev_entries |-> [i \in 1..32767 |-> [entry |-> LongEntry(i), idx |-> 2 * i - 1]],
     len |-> 65535,
     bsm |-> <<>>]

IsNearlyFull(pool) == Len(pool.entries) >= 32767

PoolEntries ==
    {IntEntry(7), LongEntry(7), FloatEntry("0.0"), FloatEntry("-0.0"),
     FloatEntry("NaN"), FloatEntry("NaN1"), DoubleEntry("NaN")}
NearlyFullPoolEntries == {IntEntry(7), LongEntry(7), LongEntry(0)}

\* one call of insert_raw
InsertRawCall ==
    /\ pc = "Pool"
    /\ result = "none"
    /\ Len(issued) < (IF IsNearlyFull(cp) THEN MaxFullInserts ELSE MaxInserts)
    /\ \E value \in (IF IsNearlyFull(cp) THEN NearlyFullPoolEntries ELSE PoolEntries) :
          IF InsertRawPanics(cp, value, checked)
          THEN /\ result' = "Panic"
               /\ UNCHANGED <<cp, issued>>
          ELSE /\ cp' = InsertRaw(cp, value).cp
               /\ issued' = Append(issued, [call |-> "insert_raw", arg |-> value,
                                            idx |-> InsertRaw(cp, value).idx])
               /\ UNCHANGED result
    /\ UNCHANGED <<pc, self, checked, buf, jumps, labels, line_numbers, index_hints,
                   actual_indices, actual_sizes, writer, rvars, mcp, holders>>

\* one call of insert_bsm
InsertBsmCall ==
    /\ pc = "Pool"
    /\ result = "none"
    /\ ~IsNearlyFull(cp)
    /\ Len(issued) < MaxInserts
    /\ \E bsm \in {"bsm0"} :
          /\ cp' = InsertBsm(cp, bsm).cp
          /\ issued' = Append(issued, [call |-> "insert_bsm", arg |-> [bsm |-> bsm],
                                       idx |-> InsertBsm(cp, bsm).idx])
    /\ UNCHANGED <<pc, result, self, checked, buf, jumps, labels, line_numbers,
                   index_hints, actual_indices, actual_sizes, writer, rvars, mcp,
                   holders>>

NextVecCp == InsertRawCall \/ InsertBsmCall

InitVecCp ==
    /\ pc = "Pool"
    /\ result = "none"
    /\ cp \in {NewVecCp, NearlyFullVecCp}
    /\ checked \in (IF IsNearlyFull(cp) THEN BOOLEAN ELSE {TRUE})
    /\ self = Code(0, 0, <<>>, <<>>, <<>>)
    /\ buf = <<>>
    /\ jumps = <<>>
    /\ labels = EmptyMap
    /\ line_numbers = EmptyMap
    /\ index_hints = <<>>
    /\ actual_indices = <<>>
    /\ actual_sizes = <<>>
    /\ writer = <<>>
    /\ ReaderIdle
    /\ PoolIdle

SpecVecCp == InitVecCp /\ [][NextVecCp]_vars

(***************************************************************************)
(* Properties of VecCp.                                                    *)
(***************************************************************************)
\* the insert_raw calls made so far
RawCalls == {k \in DOMAIN issued : issued[k].call = "insert_raw"}

IsFloating(e) == e.tag \in {"Float", "Double"}
SameBits(a, b) ==
    /\ a.tag = b.tag
    /\ (a.tag = "Float" => ToBits32(a.f32) = ToBits32(b.f32))
    /\ (a.tag = "Double" => ToBits64(a.f64) = ToBits64(b.f64))

\* C12: an insert_raw of an entry equal to one inserted before returns the index
\* returned the first time and leaves entries, len and the bootstrap list as
\* they are; Float and Double entries are equal when their bits are, so a NaN
\* gets the index of the NaN with the same bits and +0.0 and -0.0 get two.
C12_InsertRawIdempotent ==
    [][(pc = "Pool" /\ Len(issued') = Len(issued) + 1
        /\ issued'[Len(issued')].call = "insert_raw")
       => LET now == issued'[Len(issued')]
              before == {k \in RawCalls :
                            IF IsFloating(now.arg) \/ IsFloating(issued[k].arg)
                            THEN SameBits(issued[k].arg, now.arg)
                            ELSE issued[k].arg = now.arg}
          IN  /\ before # {} =>
                    /\ \A k \in before : now.idx = issued[k].idx
                    /\ cp' = cp
              /\ \A k \in RawCalls \ before :
                    (IsFloating(now.arg) /\ issued[k].arg.tag = now.arg.tag)
                       => now.idx # issued[k].idx]_vars

\* a NaN inserted twice with one index between +0.0 and -0.0 with two
C12_Witness ==
    /\ pc = "Pool"
    /\ Len(issued) = 4
    /\ issued[1].arg = FloatEntry("NaN")
    /\ issued[2].arg = FloatEntry("0.0")
    /\ issued[3].arg = FloatEntry("NaN")
    /\ issued[4].arg = FloatEntry("-0.0")
    /\ issued[3].idx = issued[1].idx
    /\ issued[4].idx # issued[2].idx
    /\ Len(cp.entries) = 3

\* the slots of the j-th entry of the pool as VecCp::write_to lays it out
IsWide(e) == EntrySize(e) = 2
WideBefore(pool, j) == Cardinality({i \in 1..(j - 1) : IsWide(pool.entries[i])})
SlotOf(pool, j) == j + WideBefore(pool, j)
Slots(call) == call.idx..(call.idx + EntrySize(call.arg) - 1)

\* C13: whatever insert_raw and insert_bsm calls were made, every index
\* returned still denotes the entry it was returned for, the first index of a
\* pool is 1, different entries have disjoint slots (two for a Long or a
\* Double), every index returned by insert_raw is a positive 16-bit value and
\* len is one more than the sizes of all entries.
C13_IndicesStable ==
    pc = "Pool" =>
        /\ \A k \in RawCalls :
              /\ issued[k].idx \in 1..65535
              /\ \E j \in DOMAIN cp.entries :
                    /\ EntryEq(cp.entries[j], issued[k].arg)
                    /\ SlotOf(cp, j) = issued[k].idx
        /\ \A k \in DOMAIN issued \ RawCalls :
              /\ issued[k].idx + 1 \in DOMAIN cp.bsm
              /\ cp.bsm[issued[k].idx + 1] = issued[k].arg.bsm
        /\ \A k \in RawCalls :
              EntryEq(cp.entries[1], issued[k].arg) => issued[k].idx = 1
        /\ \A k, l \in RawCalls :
              ~EntryEq(issued[k].arg, issued[l].arg)
                 => Slots(issued[k]) \cap Slots(issued[l]) = {}
        /\ cp.len = 1 + Len(cp.entries) + WideBefore(cp, Len(cp.entries) + 1)

(***************************************************************************)
(* MapCp, the constant pool of the reader.  entries, the HashMap from      *)
(* index to entry, is kept as the insertions made into it, an insertion    *)
(* that follows the one before it at the next free slot with an equal      *)
(* entry being counted with it: a run [idx, entry, times] stands for the   *)
(* keys idx, idx + size, .. (times of them); the last run that holds a key *)
(* gives its value, as HashMap::insert replaces.  The input is kept the    *)
(* same way, as runs [entry, times] of equal entries.  refs is the HashMap *)
(* from bootstrap index to the holders waiting for it, a holder being      *)
(* named by its position in holders.                                       *)
(***************************************************************************)
MaxPool == 2
MaxHolders == 2

\* the input: its length in entries and its k-th entry
StreamLen(stream) == SumSeq([r \in DOMAIN stream |-> stream[r].times])
RunStart(stream, r) == SumSeq([q \in 1..(r - 1) |-> stream[q].times])
StreamAt(stream, k) ==
    stream[CHOOSE r \in DOMAIN stream :
              RunStart(stream, r) < k /\ k <= RunStart(stream, r) + stream[r].times].entry

\* HashMap::insert and HashMap::get
LastKey(run) == run.idx + (run.times - 1) * EntrySize(run.entry)
Holds(run, idx) ==
    /\ run.idx <= idx
    /\ idx <= LastKey(run)
    /\ (idx - run.idx) % EntrySize(run.entry) = 0
MapInsert(entries, idx, entry) ==
    IF /\ entries # <<>>
       /\ entries[Len(entries)].entry = entry
       /\ LastKey(entries[Len(entries)]) + EntrySize(entry) = idx
    THEN [entries EXCEPT ![Len(entries)].times = @ + 1]
    ELSE Append(entries, [idx |-> idx, entry |-> entry, times |-> 1])
MapGet(entries, idx) ==
    LET runs == {n \in DOMAIN entries : Holds(entries[n], idx)}
    IN  IF runs = {} THEN None
        ELSE Some(entries[CHOOSE n \in runs : \A m \in runs : m <= n].entry)

\* while i < count: one turn of the loop of MapCp::read_from.  k is the place
\* in the input, status leaves "run" when an entry cannot be read or, with
\* overflow checks, when i += entry.size() leaves u16.
CpLoopDone(st, count) == st.status # "run" \/ st.i >= count
CpLoopStep(st, stream, chk) ==
    IF st.k > StreamLen(stream)
    THEN [st EXCEPT !.status = "Err"]
    ELSE LET entry == StreamAt(stream, st.k)
             idx == st.i
         IN  IF chk /\ idx + EntrySize(entry) > 65535
             THEN [st EXCEPT !.status = "Panic"]
             ELSE [st EXCEPT !.i = AsU16(idx + EntrySize(entry)),
                             !.k = st.k + 1,
                             !.entries = MapInsert(st.entries, idx, entry)]

\* The loop, run as nested blocks of 16 turns to keep the evaluation shallow:
\* four levels cover the 65536 turns a u16 counter can take before an input
\* of that size ends.
RECURSIVE CpLoop(_, _, _, _, _, _)
CpLoop(st, n, level, stream, count, chk) ==
    IF n = 0 \/ CpLoopDone(st, count) THEN st
    ELSE CpLoop(IF level = 0 THEN CpLoopStep(st, stream, chk)
                ELSE CpLoop(st, 16, level - 1, stream, count, chk),
                n - 1, level, stream, count, chk)

\* MapCp::read_from on a count and the entries that follow it
MapCpReadFrom(in, chk) ==
    CpLoop([i |-> 1, k |-> 1, entries |-> <<>>, status |-> "run"],
           16, 3, in.entries, in.count, chk)

\* read_raw
ReadRaw(pool, idx) == MapGet(pool.entries, idx)

\* resolve_later: push the holder on the list of its index
ResolveLater(pool, bsm_idx, holder) ==
    [pool EXCEPT !.refs =
        IF bsm_idx \in DOMAIN pool.refs
        THEN [pool.refs EXCEPT ![bsm_idx] = Append(@, holder)]
        ELSE (bsm_idx :> <<holder>>) @@ pool.refs]

\* bootstrap_methods: the method a holder registered under index i is filled
\* with, the holders after the fills, the refs left, and the answer
FillWithFirst(bsms, i) == bsms[1]
FillWith(bsms, i) == bsms[i + 1]
Filled(pool, cells, bsms) ==
    [h \in DOMAIN cells |->
        IF \E i \in DOMAIN pool.refs :
              i < Len(bsms) /\ \E n \in DOMAIN pool.refs[i] : pool.refs[i][n] = h
        THEN LET i == CHOOSE i \in DOMAIN pool.refs :
                          i < Len(bsms)
                          /\ \E n \in DOMAIN pool.refs[i] : pool.refs[i][n] = h
             IN  Some(FillWith(bsms, i))
        ELSE cells[h]]
RefsLeftAll(pool, bsms) == pool.refs
RefsLeft(pool, bsms) ==
    [i \in {i \in DOMAIN pool.refs : i >= Len(bsms)} |-> pool.refs[i]]
UnresolvedNever(refs) == FALSE
Unresolved(refs) == \E i \in DOMAIN refs : refs[i] # <<>>

\* the inputs of read_from: a count and up to MaxPool entries, and the calls
PoolStreams ==
    {[count |-> n, entries |-> [k \in DOMAIN es |-> [entry |-> es[k], times |-> 1]]] :
        n \in 0..(MaxPool + 2),
        es \in UNION {[1..l -> {IntEntry(7), LongEntry(7)}] : l \in 0..MaxPool}}
BsmIndices == {0, 1}
BsmTables == {<<>>, <<"bsm0">>, <<"bsm0", "bsm1">>}
LookupIndices(count) == {0, 1, 2, 3, count - 1, count, count + 1} \cap 0..65535

\* a pool of 65535 slots whose last entry is a Long, followed by as many
\* entries again
FullStream ==
    [count |-> 65535,
     entries |-> <<[entry |-> IntEntry(7), times |-> 1],
                   [entry |-> LongEntry(7), times |-> 32767],
                   [entry |-> IntEntry(7), times |-> 1],
                   [entry |-> LongEntry(7), times |-> 32767]>>]

MapCpReadFromCall ==
    /\ pc = "MapStart"
    /\ \E st \in {MapCpReadFrom(input, checked)} :
           /\ mcp' = [mcp EXCEPT !.entries =
                         IF st.status = "run" THEN st.entries ELSE @]
           /\ pc' = IF st.status = "run" THEN "MapReady" ELSE "MapDone"
           /\ result' = IF st.status = "run" THEN "none" ELSE st.status
    /\ UNCHANGED <<wvars, rvars, issued, holders>>

\* issued keeps the last lookup
ReadRawCall ==
    /\ pc = "MapReady"
    /\ \E idx \in LookupIndices(input.count) :
          issued' = <<[call |-> "read_raw", at |-> idx, got |-> ReadRaw(mcp, idx)]>>
    /\ UNCHANGED <<pc, result, wvars, rvars, mcp, holders>>

ResolveLaterCall ==
    /\ pc = "MapReady"
    /\ Len(holders) < MaxHolders
    /\ \E bsm_idx \in BsmIndices :
          mcp' = ResolveLater(mcp, bsm_idx, Len(holders) + 1)
    /\ holders' = Append(holders, None)
    /\ UNCHANGED <<pc, result, wvars, rvars, issued>>

\* out keeps the table the call was made with
BootstrapMethodsCall ==
    /\ pc = "MapReady"
    /\ \E bsms \in BsmTables :
          /\ holders' = Filled(mcp, holders, bsms)
          /\ mcp' = [mcp EXCEPT !.refs = RefsLeft(mcp, bsms)]
          /\ result' = IF Unresolved(RefsLeft(mcp, bsms)) THEN "Err" ELSE "Ok"
          /\ out' = Some(bsms)
    /\ pc' = "MapDone"
    /\ UNCHANGED <<wvars, input, instructions, pos2idx, rlabels, catches, attrs,
                   to_insert, local_vars, issued>>

NextMapCp ==
    \/ MapCpReadFromCall
    \/ ReadRawCall
    \/ ResolveLaterCall
    \/ BootstrapMethodsCall

MapCpStart(streams) ==
    /\ pc = "MapStart"
    /\ result = "none"
    /\ WriterIdle
    /\ input \in streams
    /\ checked \in (IF input.count = 65535 THEN BOOLEAN ELSE {TRUE})
    /\ instructions = <<>>
    /\ pos2idx = EmptyMap
    /\ rlabels = EmptyMap
    /\ catches = <<>>
    /\ attrs = <<>>
    /\ to_insert = EmptyMap
    /\ local_vars = EmptyMap
    /\ out = None
    /\ issued = <<>>
    /\ mcp = NewMapCp
    /\ holders = <<>>

InitMapCp == MapCpStart(PoolStreams \cup {FullStream})
SpecMapCp == InitMapCp /\ [][NextMapCp]_vars

(***************************************************************************)
(* Properties of MapCp.                                                    *)
(***************************************************************************)
\* the index the k-th entry of the input belongs at, and whether the loop
\* of read_from with this count reads that entry
Addr(k) ==
    1 + SumSeq([j \in 1..(k - 1) |-> EntrySize(StreamAt(input.entries, j))])
Decoded(k) == Addr(k) < input.count

\* C14: after read_from with count n, in every state that follows, lookups
\* included, the k-th entry read is found at 1 + the sizes of the entries
\* before it, and read_raw gives None for index 0, for the slot after a Long
\* or a Double and for every index from n on.
C14_EntriesAddressable ==
    pc = "MapReady" =>
        /\ ReadRaw(mcp, 0) = None
        /\ \A n \in DOMAIN mcp.entries : LastKey(mcp.entries[n]) < input.count
        /\ \A k \in 1..StreamLen(input.entries) :
              Decoded(k) =>
                 /\ ReadRaw(mcp, Addr(k)) = Some(StreamAt(input.entries, k))
                 /\ IsWide(StreamAt(input.entries, k))
                       => ReadRaw(mcp, Addr(k) + 1) = None
        /\ \A n \in DOMAIN issued : issued[n].got = ReadRaw(mcp, issued[n].at)

\* C15: a holder registered by resolve_later under index i before
\* bootstrap_methods(bsms) is called with i < len(bsms) is filled by that call
\* with bsms[i]: the holders of one index get the same method, the holders of
\* different indices each their own.
C15_HoldersFilled ==
    [][(pc = "MapReady" /\ pc' = "MapDone")
       => \A i \in DOMAIN mcp.refs : \A n \in DOMAIN mcp.refs[i] :
             i < Len(out'.some)
                => holders'[mcp.refs[i][n]] = Some(out'.some[i + 1])]_vars

\* two holders, the first registered under index 1 and the second under
\* index 0, after bootstrap_methods with a table of two
C15_Witness ==
    /\ pc = "MapDone"
    /\ out = Some(<<"bsm0", "bsm1">>)
    /\ holders = <<Some("bsm1"), Some("bsm0")>>
    /\ result = "Ok"

\* C16: bootstrap_methods answers with the error for unresolved bootstrap
\* references when a registered holder is left unfilled, which is the case of
\* an index at or beyond the length of the table, the empty table included,
\* and with Ok when every holder is filled.
C16_UnresolvedFails ==
    (pc = "MapDone" /\ out # None) =>
        /\ result \in {"Ok", "Err"}
        /\ result = "Err" <=> \E h \in DOMAIN holders : holders[h] = None
        /\ \A i \in DOMAIN mcp.refs : i >= Len(out.some)

\* a holder registered under index 0 and an empty table
C16_Witness ==
    /\ pc = "MapDone"
    /\ out = Some(<<>>)
    /\ holders = <<None>>
    /\ 0 \in DOMAIN mcp.refs
    /\ result = "Err"

(***************************************************************************)
(* Reading a Code attribute and writing the Code read: read_from, then     *)
(* write_to on its result with a new VecCp.                                *)
(***************************************************************************)
MaxAttrs == 2

\* write_to is called on the Code that read_from returned
Rewrite ==
    /\ pc = "RDone"
    /\ result = "Ok"
    /\ self' = out.some
    /\ pc' = "PassA"
    /\ result' = "none"
    /\ UNCHANGED <<pvars, rvars, checked, buf, jumps, labels, line_numbers,
                   index_hints, actual_indices, actual_sizes, writer, cp>>

NextReadWrite == NextRead \/ Rewrite \/ NextWrite

\* an attribute CodeAttr has no variant for, by its name and its bytes
RawAttribute(name, inner) == [name |-> name, inner |-> inner]

\* the attributes a Code attribute is read with: two unknown ones, the type
\* annotations, and one of each kind that read_from takes apart
ReadWriteAttributes(p) ==
    {RawAttr(RawAttribute("Custom", <<202, 254>>)),
     RawAttr(RawAttribute("Other", <<>>)),
     RuntimeVisibleTypeAnnotations("TA"),
     RuntimeInvisibleTypeAnnotations("TB"),
     StackMapTable("Frames"),
     LineNumberTable(<<<<0, 10>>>>),
     LocalVariableTable(<<LocalVar(0, Len(p.code), "x", "I", 1)>>)}

InitReadWrite ==
    /\ PoolIdle
    /\ WriterIdle
    /\ checked = TRUE
    /\ \E p \in {[code |-> BranchProgram, mid |-> 4]} :
       \E as \in UNION {[1..l -> ReadWriteAttributes(p)] : l \in 0..MaxAttrs} :
          ReadStart(ClassCode(2, 3, p.code, <<>>, as, ReadPool))

SpecReadWrite == InitReadWrite /\ [][NextReadWrite]_vars

(***************************************************************************)
(* Properties of read_from followed by write_to.                           *)
(***************************************************************************)
\* write_to of the Code read has returned Ok
RewriteOk == pc = "Done" /\ result = "Ok"

\* the attributes read_from keeps as they are
IsKept(a) ==
    a.name \in {"Raw", "RuntimeVisibleTypeAnnotations", "RuntimeInvisibleTypeAnnotations"}
IsRawAttr(a) == a.name = "Raw"
IsRaw(a) == a.kind = "Raw"
RawOf(as) == [i \in DOMAIN as |-> as[i].raw]

\* C17: every attribute read that CodeAttr has no variant for is kept in attrs
\* as Raw and written again by write_to with its name and its bytes, and the
\* unknown and the type annotation attributes are written in the order they
\* were read in.
C17_RawAttributesKept ==
    /\ pc \in {"RFinish", "RDone"} /\ result \in {"none", "Ok"}
          => RawOf(SelectSeq(attrs, IsRaw))
                = RawOf(SelectSeq(input.attributes, IsRawAttr))
    /\ RewriteOk
          => /\ RawOf(SelectSeq(StreamAttrs(writer), IsRawAttr))
                   = RawOf(SelectSeq(input.attributes, IsRawAttr))
             /\ SelectSeq(StreamAttrs(writer), IsKept)
                   = SelectSeq(input.attributes, IsKept)

\* a type annotation read between two unknown attributes, all written again
C17_Witness ==
    /\ RewriteOk
    /\ Len(input.attributes) = 2
    /\ input.attributes[1] = RuntimeVisibleTypeAnnotations("TA")
    /\ input.attributes[2] = RawAttr(RawAttribute("Custom", <<202, 254>>))
    /\ StreamAttrs(writer) = input.attributes

\* the byte offset of self.code[i] in the code array written
InsnOffset(i) ==
    LET st == PassAState(SubSeq(self.code, 1, i - 1))
    IN  (IF Len(st.buf) = 0 THEN 0 ELSE RealEnd(Len(st.buf))) + st.cursor

\* C18: write_to writes a LineNumberTable attribute that has, for every
\* LineNumber(n) of the code, an entry with n and the byte offset of the
\* instruction, and counts it in attributes_count.
C18_LineNumberTableWritten ==
    RewriteOk =>
        \A i \in DOMAIN self.code :
            self.code[i].op = "LineNumber" =>
                \E k \in DOMAIN StreamAttrs(writer) :
                    /\ StreamAttrs(writer)[k].name = "LineNumberTable"
                    /\ \E e \in DOMAIN StreamAttrs(writer)[k].entries :
                          StreamAttrs(writer)[k].entries[e]
                             = <<InsnOffset(i), self.code[i].line>>

\* C19: a StackMapTable attribute read is kept in attrs, so that write_to on
\* the Code read writes the same StackMapTable.
C19_StackMapTableKept ==
    RewriteOk =>
        \A i \in DOMAIN input.attributes :
            input.attributes[i].name = "StackMapTable" =>
                \E k \in DOMAIN StreamAttrs(writer) :
                    StreamAttrs(writer)[k] = input.attributes[i]

(***************************************************************************)
(* RawFrame, a frame of a StackMapTable.                                   *)
(***************************************************************************)
MaxFrameBytes == 7

Same(off) == [frame |-> "Same", offset |-> off]
SameLocalsOneStack(off, ty) ==
    [frame |-> "SameLocalsOneStack", offset |-> off, stack |-> <<ty>>]
Chop(off, n) == [frame |-> "Chop", offset |-> off, chop |-> n]
AppendFrame(off, locals) == [frame |-> "Append", offset |-> off, locals |-> locals]
Full(off, locals, stack) ==
    [frame |-> "Full", offset |-> off, locals |-> locals, stack |-> stack]

\* what a read gives: the value, the position after it, and "Ok", "Eof" when
\* the input ends before it, or "Invalid"
Got(v, next) == [status |-> "Ok", v |-> v, next |-> next]
NotGot(status) == [status |-> status, v |-> 0, next |-> 0]

\* u8::read_from and u16::read_from at position p
GetU8(bytes, p) ==
    IF p + 1 > Len(bytes) THEN NotGot("Eof") ELSE Got(ByteAt(bytes, p), p + 1)
GetU16(bytes, p) ==
    IF p + 2 > Len(bytes) THEN NotGot("Eof") ELSE Got(ReadU16(bytes, p), p + 2)

\* VerificationType::read_from for the variants of one byte
VerificationTypes ==
    <<"Top", "Int", "Float", "Long", "Double", "Null", "UninitializedThis">>
GetVerificationType(bytes, p) ==
    LET tag == GetU8(bytes, p)
    IN  IF tag.status # "Ok" THEN tag
        ELSE CASE tag.v < Len(VerificationTypes) ->
                     Got(VerificationTypes[tag.v + 1], tag.next)

\* for _ in 0..n { vec.push(VerificationType::read_from(cp, reader)?) }
RECURSIVE GetVerificationTypes(_, _, _, _)
GetVerificationTypes(bytes, p, n, acc) ==
    IF n = 0 THEN Got(acc, p)
    ELSE LET ty == GetVerificationType(bytes, p)
         IN  IF ty.status # "Ok" THEN ty
             ELSE GetVerificationTypes(bytes, ty.next, n - 1, Append(acc, ty.v))

\* the operands of the frames by the arm of the match
ChopCountFromTag(tag) == tag - 247
ChopCount(tag) == 251 - tag
AppendCount(tag) == tag - 251

GetOneStack(bytes, off, p) ==
    LET ty == GetVerificationType(bytes, p)
    IN  IF ty.status # "Ok" THEN ty
        ELSE Got(SameLocalsOneStack(off, ty.v), ty.next)

GetFull(bytes, off, p) ==
    LET locals == GetU16(bytes, p)
    IN  IF locals.status # "Ok" THEN locals
        ELSE LET local == GetVerificationTypes(bytes, locals.next, locals.v, <<>>)
             IN  IF local.status # "Ok" THEN local
                 ELSE LET stacks == GetU16(bytes, local.next)
                      IN  IF stacks.status # "Ok" THEN stacks
                          ELSE LET stack == GetVerificationTypes(
                                                bytes, stacks.next, stacks.v, <<>>)
                               IN  IF stack.status # "Ok" THEN stack
                                   ELSE Got(Full(off, local.v, stack.v), stack.next)

\* RawFrame::read_from
RawFrameReadFrom(bytes) ==
    LET t == GetU8(bytes, 0)
        tag == t.v
        off == GetU16(bytes, 1)
    IN  IF t.status # "Ok" THEN t
        ELSE CASE tag \in 0..63 -> Got(Same(tag), 1)
               [] tag \in 64..127 -> GetOneStack(bytes, tag - 64, 1)
               [] tag \in 128..246 -> NotGot("Invalid")
               [] off.status # "Ok" -> off
               [] tag = 247 -> GetOneStack(bytes, off.v, 3)
               [] tag \in 248..250 -> Got(Chop(off.v, ChopCount(tag)), 3)
               [] tag = 251 -> Got(Same(off.v), 3)
               [] tag \in 252..254 ->
                     LET vec == GetVerificationTypes(bytes, 3, AppendCount(tag), <<>>)
                     IN  IF vec.status # "Ok" THEN vec
                         ELSE Got(AppendFrame(off.v, vec.v), vec.next)
               [] OTHER -> GetFull(bytes, off.v, 3)

\* out is Some(frame) after Ok and names the error otherwise
RawFrameRead ==
    /\ pc = "Frame"
    /\ \E got \in {RawFrameReadFrom(input)} :
          /\ out' = IF got.status = "Ok" THEN Some(got.v) ELSE [err |-> got.status]
          /\ result' = IF got.status = "Ok" THEN "Ok" ELSE "Err"
    /\ pc' = "FrameDone"
    /\ UNCHANGED <<pvars, wvars, input, instructions, pos2idx, rlabels, catches,
                   attrs, to_insert, local_vars>>

NextRawFrame == RawFrameRead

\* the inputs: every tag byte, followed by up to MaxFrameBytes bytes of 0 and
\* 1 where the tag has operands of more than one byte
FrameBytes(tag) ==
    UNION {[1..l -> {0, 1}] : l \in 0..(IF tag < 247 THEN 1 ELSE MaxFrameBytes)}

InitRawFrame ==
    /\ PoolIdle
    /\ WriterIdle
    /\ checked = TRUE
    /\ pc = "Frame"
    /\ result = "none"
    /\ \E tag \in 0..255 : \E bytes \in FrameBytes(tag) : input = <<tag>> \o bytes
    /\ instructions = <<>>
    /\ pos2idx = EmptyMap
    /\ rlabels = EmptyMap
    /\ catches = <<>>
    /\ attrs = <<>>
    /\ to_insert = EmptyMap
    /\ local_vars = EmptyMap
    /\ out = None

SpecRawFrame == InitRawFrame /\ [][NextRawFrame]_vars

(***************************************************************************)
(* Properties of RawFrame.                                                 *)
(***************************************************************************)
FrameRead == pc = "FrameDone" /\ result = "Ok"
\* the verification types the bytes input[from + 1 .. from + n] stand for
TypesAt(from, n) == [i \in 1..n |-> VerificationTypes[input[from + i] + 1]]

\* C20: RawFrame::read_from takes the tag 0..63 for Same(tag), 64..127 for
\* SameLocalsOneStack(tag - 64, type), 247 for SameLocalsOneStack and 251 for
\* Same with the offset that follows as a u16, 248..250 for Chop(offset,
\* 251 - tag), 252..254 for Append(offset, tag - 251 types), 255 for
\* Full(offset, locals, stack), and answers the tags 128..246 with the
\* Invalid error.
C20_FrameTags ==
    pc = "FrameDone" =>
        LET tag == input[1]
            frame == out.some
            explicit == ReadU16(input, 1)
        IN  /\ tag \in 0..63 => FrameRead /\ frame = Same(tag)
            /\ tag \in 128..246 => result = "Err" /\ out = [err |-> "Invalid"]
            /\ tag \notin 128..246 => out # [err |-> "Invalid"]
            /\ FrameRead =>
                  /\ tag \in 64..127 =>
                        frame = SameLocalsOneStack(tag - 64, TypesAt(1, 1)[1])
                  /\ tag = 247 =>
                        frame = SameLocalsOneStack(explicit, TypesAt(3, 1)[1])
                  /\ tag \in 248..250 => frame = Chop(explicit, 251 - tag)
                  /\ tag = 251 => frame = Same(explicit)
                  /\ tag \in 252..254 =>
                        frame = AppendFrame(explicit, TypesAt(3, tag - 251))
                  /\ tag = 255 =>
                        LET locals == ReadU16(input, 3)
                            stacks == ReadU16(input, 5 + locals)
                        IN  frame = Full(explicit, TypesAt(5, locals),
                                         TypesAt(7 + locals, stacks))

\* a chop of two, an append of two and a full frame with one local
C20_Witness ==
    /\ FrameRead
    /\ \/ input = <<249, 1, 0>> /\ out = Some(Chop(256, 2))
       \/ input = <<253, 0, 1, 1, 0>> /\ out = Some(AppendFrame(1, <<"Int", "Top">>))
       \/ input = <<255, 0, 0, 0, 1, 1, 0, 0>>
             /\ out = Some(Full(0, <<"Int">>, <<>>))

(***************************************************************************)
(* RawFrame::write_to, and the frame read back from the bytes written.     *)
(***************************************************************************)
MaxFrameTypes == 4

\* u16::write_to and VerificationType::write_to for the variants of one byte
PutU16(v) == <<v \div 256, v % 256>>
PutVerificationType(ty) ==
    <<(CHOOSE i \in 1..Len(VerificationTypes) : VerificationTypes[i] = ty) - 1>>

RECURSIVE PutVerificationTypes(_)
PutVerificationTypes(tys) ==
    IF tys = <<>> THEN <<>>
    ELSE PutVerificationType(Head(tys)) \o PutVerificationTypes(Tail(tys))

\* the patterns `off @ 0..=63`, `chop @ 1..=3` and `locals.len() <= 3`
IsShortOffset(off) == off \in 0..63
ChopAcceptedFromZero(chop) == chop \in 0..3
ChopAccepted(chop) == chop \in 1..3
AppendAccepted(locals) == Len(locals) <= 3

Written(bytes) == [status |-> "Ok", bytes |-> bytes]
NotWritten(status) == [status |-> status, bytes |-> <<>>]

\* RawFrame::write_to: the bytes it writes, or the error it returns
RawFrameWriteTo(f) ==
    CASE f.frame = "Same" ->
            IF IsShortOffset(f.offset) THEN Written(<<f.offset>>)
            ELSE Written(<<251>> \o PutU16(f.offset))
      [] f.frame = "SameLocalsOneStack" ->
            IF IsShortOffset(f.offset)
            THEN Written(<<f.offset + 64>> \o PutVerificationType(f.stack[1]))
            ELSE Written(<<247>> \o PutU16(f.offset)
                         \o PutVerificationType(f.stack[1]))
      [] f.frame = "Chop" ->
            IF ChopAccepted(f.chop)
            THEN Written(<<(251 - f.chop) % 256>> \o PutU16(f.offset))
            ELSE NotWritten("Invalid")
      [] f.frame = "Append" ->
            IF AppendAccepted(f.locals)
            THEN Written(<<(Len(f.locals) + 251) % 256>> \o PutU16(f.offset)
                         \o PutVerificationTypes(f.locals))
            ELSE NotWritten("Invalid")
      [] f.frame = "Full" ->
            Written(<<255>> \o PutU16(f.offset)
                    \o PutU16(Len(f.locals) % 65536) \o PutVerificationTypes(f.locals)
                    \o PutU16(Len(f.stack) % 65536) \o PutVerificationTypes(f.stack))

FrameUnchanged ==
    UNCHANGED <<self, checked, buf, jumps, labels, line_numbers, index_hints,
                actual_indices, actual_sizes, cp, pvars, instructions, pos2idx,
                rlabels, catches, attrs, to_insert, local_vars>>

RawFrameWrite ==
    /\ pc = "FrameWrite"
    /\ \E put \in {RawFrameWriteTo(self)} :
          /\ writer' = writer \o put.bytes
          /\ result' = IF put.status = "Ok" THEN "Ok" ELSE "Err"
          /\ out' = IF put.status = "Ok" THEN None ELSE [err |-> put.status]
    /\ pc' = "FrameWritten"
    /\ UNCHANGED input
    /\ FrameUnchanged

\* the bytes written are handed to a reader
FeedFrame ==
    /\ pc = "FrameWritten"
    /\ result = "Ok"
    /\ input' = writer
    /\ result' = "none"
    /\ pc' = "Frame"
    /\ UNCHANGED <<writer, out>>
    /\ FrameUnchanged

NextFrameRoundTrip == RawFrameWrite \/ FeedFrame \/ RawFrameRead

\* the frames: offsets on both sides of 63, chop counts and vectors of
\* locals on both sides of 3
FrameOffsets == {0, 63, 64, 300, 65535}
FrameTypes == {"Int", "Long"}
TypeVecs(n) == UNION {[1..l -> FrameTypes] : l \in 0..n}
Frames ==
    {Same(off) : off \in FrameOffsets}
    \cup {SameLocalsOneStack(off, ty) : off \in FrameOffsets, ty \in FrameTypes}
    \cup {Chop(off, n) : off \in FrameOffsets, n \in 0..MaxFrameTypes \cup {255}}
    \cup {AppendFrame(off, locals) :
              off \in FrameOffsets, locals \in TypeVecs(MaxFrameTypes)}
    \cup {Full(off, locals, stack) :
              off \in FrameOffsets, locals \in TypeVecs(MaxFrameTypes - 2),
              stack \in TypeVecs(MaxFrameTypes - 2)}

InitFrameRoundTrip ==
    /\ PoolIdle
    /\ self \in Frames
    /\ checked = TRUE
    /\ pc = "FrameWrite"
    /\ result = "none"
    /\ buf = <<>>
    /\ jumps = <<>>
    /\ labels = EmptyMap
    /\ line_numbers = EmptyMap
    /\ index_hints = <<>>
    /\ actual_indices = <<>>
    /\ actual_sizes = <<>>
    /\ writer = <<>>
    /\ cp = NewVecCp
    /\ input = <<>>
    /\ instructions = <<>>
    /\ pos2idx = EmptyMap
    /\ rlabels = EmptyMap
    /\ catches = <<>>
    /\ attrs = <<>>
    /\ to_insert = EmptyMap
    /\ local_vars = EmptyMap
    /\ out = None

SpecFrameRoundTrip == InitFrameRoundTrip /\ [][NextFrameRoundTrip]_vars

(***************************************************************************)
(* Properties of RawFrame::write_to.                                       *)
(***************************************************************************)
FrameRefused ==
    \/ self.frame = "Chop" /\ self.chop \notin 1..3
    \/ self.frame = "Append" /\ Len(self.locals) > 3

\* C21: RawFrame::write_to answers a Chop frame whose count is outside 1..3
\* and an Append frame of more than 3 locals with the Invalid error, and then
\* no byte is written and the constant pool is as it was.
C21_InvalidFrameRefused ==
    (pc # "FrameWrite" /\ FrameRefused) =>
        /\ pc = "FrameWritten"
        /\ result = "Err"
        /\ out = [err |-> "Invalid"]
        /\ writer = <<>>
        /\ cp = NewVecCp

\* a chop of zero and an append of four locals are refused
C21_Witness ==
    /\ pc = "FrameWritten"
    /\ result = "Err"
    /\ \/ self = Chop(64, 0)
       \/ self.frame = "Append" /\ Len(self.locals) = 4

\* C27: a frame that RawFrame::write_to accepts is read back by
\* RawFrame::read_from from the bytes written as an equal frame.
C27_FrameRoundTrip ==
    (pc = "FrameDone" /\ ~FrameRefused) => result = "Ok" /\ out = Some(self)

(***************************************************************************)
(* The wide form of a conditional jump.                                    *)
(***************************************************************************)
\* jump k was emitted through the wide arm of wide!
TookWidePath(k) == IsCondJump(jumps[k]) /\ JumpFieldIdx(k, "wopcode") # {}

\* the byte offset of the goto_w opcode of jump k
RealWidePos(k) ==
    FieldStart(CHOOSE n \in JumpFieldIdx(k, "wopcode") : TRUE)

\* C22: a conditional jump on the wide path is emitted in exactly 8 bytes:
\* the opcode of the inverted condition, a 16-bit branch offset that lands
\* on the instruction right after the goto_w, the goto_w opcode, and a
\* signed 32-bit offset that reaches the target label from the position of
\* the goto_w opcode.
C22_WideCondEightBytes ==
    CodeWritten =>
        \A k \in 1..Len(jumps) :
            TookWidePath(k) =>
                LET skip == JumpField(k, "skip")
                    off == JumpField(k, "offset")
                IN  /\ RealJumpSize(k) = 8
                    /\ JumpField(k, "opcode").v
                           = CondOpcode(NegCond(jumps[k].cond).some)
                    /\ skip.t = "u16"
                    /\ RealOpcodePos(k) + skip.v = RealEnd(k)
                    /\ JumpField(k, "wopcode").v = GOTO_W
                    /\ off.t = "i32"
                    /\ RealWidePos(k) + off.v = RealLabelPos(jumps[k].target)

\* C23: for every jump k, index_hints[k] is at least the byte offset at
\* which the segment after jump k really starts in the emitted code, so a
\* label whose hinted offset is at most 65535 really lies at an offset of at
\* most 65535.
C23_IndexHintsUpperBound ==
    CodeWritten =>
        /\ \A k \in 1..Len(jumps) : index_hints[k] >= RealEnd(k)
        /\ \A l \in DOMAIN labels :
              TargetOff(index_hints, labels[l]) <= 65535 => RealLabelPos(l) <= 65535

(***************************************************************************)
(* The table of a tableswitch.                                             *)
(***************************************************************************)
\* the emission has been run, to its end or to an abort
EmissionOver == pc \in {"Catches", "Attrs", "Done"}

\* the fields written for jump k from its default offset on
FromDefault(k) ==
    LET Mine(f) == f.k = k /\ f.role \in {"default", "low", "high", "offset"}
    IN  SelectSeq(CodeFields, Mine)

\* C24: for a TableSwitch with lower bound low and n >= 0 offsets, low + n - 1
\* being a signed 32-bit integer, write_to emits after the default offset
\* low, then high = low + n - 1, then the n offsets in the order of the
\* vector, and does so without an abort.
C24_TableSwitchHigh ==
    EmissionOver =>
        \A k \in 1..Len(jumps) :
            (/\ jumps[k].op = "TableSwitch"
             /\ ~OverflowsI32(jumps[k].low, Len(jumps[k].offsets) - 1)) =>
                LET n == Len(jumps[k].offsets)
                    fs == FromDefault(k)
                IN  /\ result # "Panic"
                    /\ Len(fs) = 3 + n
                    /\ fs[1].role = "default"
                    /\ fs[2].role = "low" /\ fs[2].v = jumps[k].low
                    /\ fs[3].role = "high" /\ fs[3].v = jumps[k].low + n - 1
                    /\ \A i \in 1..n :
                          /\ fs[3 + i].role = "offset"
                          /\ fs[3 + i].t = "i32"
                          /\ fs[3 + i].ref = jumps[k].offsets[i]

(***************************************************************************)
(* Reading line numbers: the entries of up to two LineNumberTable          *)
(* attributes, at an offset with a label, at one without and twice at the  *)
(* same offset.                                                            *)
(***************************************************************************)
MaxLines == 3

\* (start_pc, line): the first instruction twice, the one at p.mid once
LineChoices(p) == {<<0, 10>>, <<0, 11>>, <<p.mid, 12>>}

\* the entries es in two tables, the first taking es[1..at]
LineTables(es, at) ==
    <<LineNumberTable(SubSeq(es, 1, at)), LineNumberTable(SubSeq(es, at + 1, Len(es)))>>

InitReadLines ==
    /\ PoolIdle
    /\ WriterIdle
    /\ checked = TRUE
    /\ \E p \in ReadPrograms : \E es \in ReadExceptionsOf(p) :
       \E ln \in UNION {[1..l -> LineChoices(p)] : l \in 0..MaxLines} :
       \E at \in 0..Len(ln) :
          ReadStart(ClassCode(2, 3, p.code, es, LineTables(ln, at), ReadPool))

SpecReadLines == InitReadLines /\ [][NextRead]_vars

(***************************************************************************)
(* Properties of the pseudo-instructions inserted by read_from.            *)
(***************************************************************************)
\* the instructions as they were decoded, before the insertion
Decoded0 ==
    Disassemble(input.code, 0,
                [ok |-> TRUE, instructions |-> <<>>, pos2idx |-> EmptyMap,
                 labels |-> EmptyMap]).instructions

IsRealInsn(insn) == insn.op \notin {"Label", "LineNumber"}

\* C25: after read_from, for every (start_pc, line) entry of every
\* LineNumberTable attribute the code holds a LineNumber(line) placed before
\* the instruction decoded at start_pc, also when several entries refer to the
\* same instruction and when a label is minted for the same position.
C25_LineNumbersInserted ==
    ReadOk =>
        LET code == out.some.code
        IN  \A e \in InputEntries("LineNumberTable") :
                \E i \in DOMAIN code :
                    /\ code[i] = LineNumber(e[2])
                    /\ RealBefore(code, i) = pos2idx[e[1]]

\* C26: after read_from, the Label of every label minted for a byte offset o
\* stands before the real instruction decoded at o with nothing but
\* pseudo-instructions in between, a label minted for o = code_length stands
\* after the last real instruction, and the real instructions are in the order
\* in which they were decoded.
C26_LabelsInPlace ==
    ReadOk =>
        LET code == out.some.code
            real == SelectSeq(code, IsRealInsn)
        IN  /\ real = Decoded0
            /\ \A o \in DOMAIN rlabels :
                  \E i \in LabelPositions(code, rlabels[o]) :
                      /\ RealBefore(code, i) = pos2idx[o]
                      /\ o = Len(input.code) =>
                            \A j \in (i + 1)..Len(code) : ~IsRealInsn(code[j])
                      /\ o < Len(input.code) =>
                            \E j \in (i + 1)..Len(code) :
                                /\ code[j] = Decoded0[pos2idx[o] + 1]
                                /\ \A m \in (i + 1)..(j - 1) : ~IsRealInsn(code[m])

\* labels at the first instruction, in the middle and at code_length, a line
\* number sharing the position of the first and one further on
C26_Witness ==
    /\ ReadOk
    /\ {0, 5, Len(input.code)} \subseteq DOMAIN rlabels
    /\ Len(input.code) > 5
    /\ LET code == out.some.code
       IN  /\ code[1].op = "Label" /\ code[2].op = "LineNumber"
           /\ \E i \in 4..Len(code) : code[i].op = "LineNumber"
           /\ code[Len(code)].op = "Label"

(***************************************************************************)
(* Writing a Code that refers to a label without a Label pseudo-           *)
(* instruction: Label(0) and Label(1) are in the code, Label(9) is not.    *)
(***************************************************************************)
RefLabels == {0, 9}

\* Label(0), a nop, possibly one jump or switch, Label(1), return
RefCodes ==
    {<<Label(0), Nops(1)>> \o j \o <<Label(1), Return>> :
        j \in {<<>>}
           \cup {<<Jump(c, l)>> : c \in {"Always", "Eq"}, l \in RefLabels}
           \cup {<<Jsr(l)>> : l \in RefLabels}
           \cup {<<TableSwitch(d, 0, <<l>>)>> : d \in RefLabels, l \in RefLabels}
           \cup {<<LookupSwitch(d, <<<<1, l>>>>)>> : d \in RefLabels, l \in RefLabels}}

RefCatches ==
    {<<>>} \cup {<<Catch(a, b, c, None)>> :
                    a \in RefLabels, b \in RefLabels, c \in RefLabels}

RefAttrs ==
    {<<>>} \cup {<<LocalVariables(<<LocalVariable(a, b, "x", Some("I"), None, 1)>>)>> :
                    a \in RefLabels, b \in RefLabels}

InitRefs ==
    /\ PoolIdle
    /\ \E code \in RefCodes, cs \in RefCatches, as \in RefAttrs :
          WriteStart(Code(1, 1, code, cs, as))
    /\ checked \in BOOLEAN
    /\ ReaderIdle

SpecRefs == InitRefs /\ [][NextWrite]_vars

\* the labels that have a Label pseudo-instruction in self.code
DefinedLabels == {self.code[i].id : i \in {i \in DOMAIN self.code : self.code[i].op = "Label"}}

\* the labels the jumps and switches, the exception table and the local
\* variable ranges of self refer to
JumpRefs == UNION {Targets(self.code[i]) : i \in DOMAIN self.code}
CatchRefs ==
    UNION {{self.catches[i].start, self.catches[i].end, self.catches[i].handler} :
              i \in DOMAIN self.catches}
VarRefs ==
    UNION {UNION {{self.attrs[i].vars[j].start, self.attrs[i].vars[j].end} :
                     j \in DOMAIN self.attrs[i].vars} :
              i \in {i \in DOMAIN self.attrs : self.attrs[i].kind = "LocalVariables"}}

\* C28: write_to returns the Invalid error, and neither aborts nor writes an
\* offset, whenever a label referenced by a jump, a switch, an entry of the
\* exception table or a local variable range has no Label in the code.
C28_UndefinedLabelFails ==
    (pc = "Done" /\ ~(JumpRefs \cup CatchRefs \cup VarRefs \subseteq DefinedLabels)) =>
        /\ result = "Err"
        /\ \A n \in DOMAIN writer : writer[n].ref \in DefinedLabels \cup {-1}

(***************************************************************************)
(* A MapCp::new() used over several calls of resolve_later and             *)
(* bootstrap_methods; issued is the log of the calls.                      *)
(***************************************************************************)
MaxCalls == 2

\* the holders a call of bootstrap_methods fills: for reg in bsm.remove()
FilledBy(pool, bsms) ==
    UNION {{pool.refs[i][n] : n \in DOMAIN pool.refs[i]} :
              i \in {i \in DOMAIN pool.refs : i < Len(bsms)}}

BootstrapCalls == {n \in DOMAIN issued : issued[n].call = "bootstrap_methods"}

ResolveLaterLogged ==
    /\ pc = "MapCalls"
    /\ Len(holders) < MaxHolders
    /\ \E bsm_idx \in BsmIndices :
          /\ mcp' = ResolveLater(mcp, bsm_idx, Len(holders) + 1)
          /\ issued' = Append(issued, [call |-> "resolve_later", idx |-> bsm_idx,
                                       holder |-> Len(holders) + 1])
    /\ holders' = Append(holders, None)
    /\ UNCHANGED <<pc, result, wvars, rvars>>

BootstrapMethodsLogged ==
    /\ pc = "MapCalls"
    /\ Cardinality(BootstrapCalls) < MaxCalls
    /\ \E bsms \in BsmTables :
          /\ holders' = Filled(mcp, holders, bsms)
          /\ mcp' = [mcp EXCEPT !.refs = RefsLeft(mcp, bsms)]
          /\ result' = IF Unresolved(RefsLeft(mcp, bsms)) THEN "Err" ELSE "Ok"
          /\ out' = Some(bsms)
          /\ issued' = Append(issued,
                [call |-> "bootstrap_methods", bsms |-> bsms,
                 filled |-> FilledBy(mcp, bsms),
                 answer |-> IF Unresolved(RefsLeft(mcp, bsms)) THEN "Err" ELSE "Ok"])
    /\ UNCHANGED <<pc, wvars, input, instructions, pos2idx, rlabels, catches, attrs,
                   to_insert, local_vars>>

NextMapCalls == ResolveLaterLogged \/ BootstrapMethodsLogged

InitMapCalls ==
    /\ pc = "MapCalls"
    /\ result = "none"
    /\ WriterIdle
    /\ ReaderIdle
    /\ checked = TRUE
    /\ issued = <<>>
    /\ mcp = NewMapCp
    /\ holders = <<>>

SpecMapCalls == InitMapCalls /\ [][NextMapCalls]_vars

(***************************************************************************)
(* Properties of the calls.                                                *)
(***************************************************************************)
\* the index holder h was registered under, and the call that registered it
RegisteredAt(h) ==
    CHOOSE n \in DOMAIN issued :
        issued[n].call = "resolve_later" /\ issued[n].holder = h

\* the holders registered before call n that no earlier call has filled
PendingAt(n) ==
    {h \in DOMAIN holders :
        /\ RegisteredAt(h) < n
        /\ \A m \in BootstrapCalls : m < n => h \notin issued[m].filled}

\* C29: over any sequence of resolve_later and bootstrap_methods calls each
\* holder is filled at most once: a call fills the pending holders whose
\* index its table covers and they leave the pending set, so that a later
\* call neither fills them again nor reports them; a holder a failing call
\* left unresolved stays pending and is filled by a later call whose table
\* covers its index.
C29_FilledAtMostOnce ==
    /\ \A m, n \in BootstrapCalls :
          m # n => issued[m].filled \cap issued[n].filled = {}
    /\ \A n \in BootstrapCalls :
          /\ issued[n].filled =
                {h \in PendingAt(n) :
                    issued[RegisteredAt(h)].idx < Len(issued[n].bsms)}
          /\ issued[n].answer = "Err" <=> PendingAt(n) \ issued[n].filled # {}
    /\ \A h \in DOMAIN holders :
          LET by == {n \in BootstrapCalls : h \in issued[n].filled}
          IN  IF by = {} THEN holders[h] = None
              ELSE \A n \in by :
                      holders[h] = Some(issued[n].bsms[issued[RegisteredAt(h)].idx + 1])

\* a holder for index 1 is left unresolved by a call with a table of one and
\* filled by the next call; the holder for index 0 was filled by the first
C29_Witness ==
    /\ Len(issued) = 4
    /\ issued[1].call = "resolve_later" /\ issued[1].idx = 1
    /\ issued[2].call = "resolve_later" /\ issued[2].idx = 0
    /\ issued[3].call = "bootstrap_methods" /\ issued[3].answer = "Err"
    /\ issued[3].filled = {2}
    /\ issued[4].call = "bootstrap_methods" /\ issued[4].answer = "Ok"
    /\ issued[4].filled = {1}
    /\ holders = <<Some("bsm1"), Some("bsm0")>>

(***************************************************************************)
(* The lexer (lex.rs).  self is the Lexer; the errors it prints are kept   *)
(* in issued.  The source is a sequence of characters of one byte.         *)
(***************************************************************************)
MaxSrc == 5

\* Lexer::new
NewLexer(src) ==
    [src |-> src, tokens |-> <<>>, start |-> 0, current |-> 0, line |-> 1,
     has_errors |-> FALSE]

Token(kind, lo, hi) == [kind |-> kind, lo |-> lo, hi |-> hi]

IsEnd(lx) == lx.current >= Len(lx.src)
CharAt(lx, idx) == IF idx < Len(lx.src) THEN Some(lx.src[idx + 1]) ELSE None
Peek(lx) == CharAt(lx, lx.current)

\* advance: the lexer after it (the character is Peek of the lexer before)
Advance(lx) ==
    IF Peek(lx) = None THEN lx ELSE [lx EXCEPT !.current = @ + 1]

\* eat: [ok, lx]
Eat(lx, c) ==
    IF Peek(lx) # Some(c) THEN [ok |-> FALSE, lx |-> lx]
    ELSE [ok |-> TRUE, lx |-> [lx EXCEPT !.current = @ + 1]]

\* what scan_token gives: the lexer, Some(kind) or None, the errors printed
Scanned(lx, kind, errs) == [lx |-> lx, kind |-> kind, errs |-> errs]

\* while let Some(c) = self.peek() && c != '\n' { self.advance(); }
RECURSIVE LineComment(_)
LineComment(lx) ==
    IF Peek(lx) = None \/ Peek(lx) = Some("\n") THEN lx
    ELSE LineComment(Advance(lx))

\* the inner loop of the block comment arm: [lx, nest]
RECURSIVE CommentInner(_, _)
CommentInner(lx, nest) ==
    IF Peek(lx) = None THEN [lx |-> lx, nest |-> nest]
    ELSE LET c == Peek(lx).some
             open == Eat(lx, "*")
             close == Eat(lx, "/")
         IN  IF c = "/" /\ open.ok THEN CommentInner(Advance(open.lx), nest + 1)
             ELSE IF c = "*" /\ close.ok THEN [lx |-> close.lx, nest |-> nest - 1]
             ELSE CommentInner(Advance(lx), nest)

\* while nest > 0 { ... }
RECURSIVE BlockComment(_, _)
BlockComment(lx, nest) ==
    IF nest <= 0 THEN Scanned(lx, None, <<>>)
    ELSE IF IsEnd(lx)
         THEN Scanned([lx EXCEPT !.has_errors = TRUE], None,
                      <<[line |-> lx.line, kind |-> "UnclosedComment"]>>)
    ELSE LET in == CommentInner(lx, nest)
         IN  BlockComment(in.lx, in.nest)

\* while let Some(c) = self.peek() && c.is_ascii_alphanumeric()
RECURSIVE Identifier(_)
Identifier(lx) ==
    IF Peek(lx) = Some("a") THEN Identifier(Advance(lx)) ELSE lx

\* scan_token, for the characters / * a and newline
ScanToken(lx0) ==
    LET c == Peek(lx0)
        lx == Advance(lx0)
    IN  CASE c = None -> Scanned(lx, None, <<>>)
          [] c = Some("*") -> Scanned(lx, Some("Star"), <<>>)
          [] c = Some("/") ->
                IF Eat(lx, "/").ok
                THEN Scanned(LineComment(Eat(lx, "/").lx), None, <<>>)
                ELSE IF Eat(lx, "*").ok THEN BlockComment(Eat(lx, "*").lx, 1)
                ELSE Scanned(lx, Some("Slash"), <<>>)
          [] c = Some("\n") -> Scanned(lx, None, <<>>)
          [] c = Some("a") -> Scanned(Identifier(lx), Some("Ident"), <<>>)
          [] OTHER ->
                Scanned([lx EXCEPT !.has_errors = TRUE], None,
                        <<[line |-> lx.line, kind |-> "UnexpectedCharacter"]>>)

LexUnchanged ==
    UNCHANGED <<checked, buf, jumps, labels, line_numbers, index_hints,
                actual_indices, actual_sizes, writer, cp, mcp, holders, input,
                instructions, pos2idx, rlabels, catches, attrs, to_insert,
                local_vars>>

\* one turn of the loop of scan_tokens
ScanTokensTurn ==
    /\ pc = "Lex"
    /\ ~IsEnd(self)
    /\ \E got \in {ScanToken([self EXCEPT !.start = self.current])} :
          /\ self' = IF got.kind = None THEN got.lx
                     ELSE [got.lx EXCEPT !.tokens =
                              Append(@, Token(got.kind.some, got.lx.start,
                                              got.lx.current))]
          /\ issued' = issued \o got.errs
    /\ UNCHANGED <<pc, result, out>>
    /\ LexUnchanged

\* the end of scan_tokens: the Eof token and the answer
ScanTokensEnd ==
    /\ pc = "Lex"
    /\ IsEnd(self)
    /\ self' = [self EXCEPT !.tokens = Append(@, Token("Eof", self.current,
                                                       self.current))]
    /\ result' = IF self.has_errors THEN "Err" ELSE "Ok"
    /\ out' = IF self.has_errors THEN None ELSE Some(self'.tokens)
    /\ pc' = "LexDone"
    /\ UNCHANGED issued
    /\ LexUnchanged

NextLex == ScanTokensTurn \/ ScanTokensEnd

SrcChars == {"/", "*", "a", "\n"}

InitLex ==
    /\ \E src \in UNION {[1..l -> SrcChars] : l \in 0..MaxSrc} : self = NewLexer(src)
    /\ pc = "Lex"
    /\ result = "none"
    /\ checked = TRUE
    /\ buf = <<>>
    /\ jumps = <<>>
    /\ labels = EmptyMap
    /\ line_numbers = EmptyMap
    /\ index_hints = <<>>
    /\ actual_indices = <<>>
    /\ actual_sizes = <<>>
    /\ writer = <<>>
    /\ cp = NewVecCp
    /\ PoolIdle
    /\ ReaderIdle

SpecLex == InitLex /\ [][NextLex]_vars

(***************************************************************************)
(* Properties of the lexer.                                                *)
(***************************************************************************)
\* The comments of a source by the grammar: from position i (1-based) outside
\* a comment (nest = 0), inside a line comment (nest = -1) or nest levels deep
\* in block comments; TRUE when the source ends inside a block comment.
RECURSIVE EndsInComment(_, _, _)
EndsInComment(src, i, nest) ==
    LET two == IF i + 1 <= Len(src) THEN <<src[i], src[i + 1]>> ELSE <<>>
    IN  IF i > Len(src) THEN nest > 0
        ELSE IF nest = -1
             THEN EndsInComment(src, i + 1, IF src[i] = "\n" THEN 0 ELSE -1)
        ELSE IF two = <<"/", "*">> THEN EndsInComment(src, i + 2, nest + 1)
        ELSE IF nest = 0 /\ two = <<"/", "/">> THEN EndsInComment(src, i + 2, -1)
        ELSE IF nest > 0 /\ two = <<"*", "/">> THEN EndsInComment(src, i + 2, nest - 1)
        ELSE EndsInComment(src, i + 1, nest)

\* the source is nothing but one closed block comment
OneClosedComment(src) ==
    /\ Len(src) >= 4
    /\ SubSeq(src, 1, 2) = <<"/", "*">>
    /\ SubSeq(src, Len(src) - 1, Len(src)) = <<"*", "/">>
    /\ \A i \in 3..(Len(src) - 2) : src[i] \in {"a", "\n"}

\* C30: scan_tokens comes to its end for every source; a block comment that
\* is closed yields no token and no error; UnclosedComment is printed, and
\* the result is Err because of it, only when the source ends inside a block
\* comment; an Ok result ends with the one Eof token.
C30_BlockComments ==
    /\ pc = "Lex" => self.current <= Len(self.src)
    /\ pc = "LexDone" =>
          /\ (\E n \in DOMAIN issued : issued[n].kind = "UnclosedComment")
                => EndsInComment(self.src, 1, 0)
          /\ OneClosedComment(self.src) =>
                /\ result = "Ok"
                /\ issued = <<>>
                /\ out = Some(<<Token("Eof", Len(self.src), Len(self.src))>>)
          /\ result = "Ok" =>
                LET toks == out.some
                IN  /\ toks[Len(toks)].kind = "Eof"
                    /\ \A n \in 1..(Len(toks) - 1) : toks[n].kind # "Eof"

====
